---- MODULE Spec2Model ----
(***************************************************************************)
(* The data-fetching layer of the analytics dashboard front-end: the three *)
(* versions of lib/api.ts found in the repository (the axios client, its   *)
(* response interceptor with the mock-data fallback, the typed fetch       *)
(* functions) and the page-level loaders that await them.                  *)
(*                                                                         *)
(* Text is modelled at word granularity: a string is a sequence of word    *)
(* and separator tokens, and String.prototype.includes is a search for a   *)
(* contiguous run of tokens.  An optional argument is <<>> (undefined) or  *)
(* <<v>>.  A non-integer literal n/d is the record [num |-> n, den |-> d]. *)
(***************************************************************************)
EXTENDS Integers, Sequences, FiniteSets, TLC

VARIABLES
    env,        \* process.env.NEXT_PUBLIC_API_URL when the module is loaded: <<>> when unset
    baseURL,    \* api.defaults.baseURL of the axios instance
    variant,    \* which lib/api.ts is bundled as '@/lib/api': "mockRevenue", "mock" or "plain"
    today,      \* the calendar day `new Date()` falls on (days since 2023-01-01)
    started,    \* number of runs of async functions started (direct calls and loaders)
    called,     \* number of calls of typed fetch functions
    issued,     \* number of HTTP requests the axios instance has sent
    inflight,   \* the requests sent and not yet settled
    last,       \* the most recently settled fetch call, <<>> before the first one
    console,    \* lines written to the console by the most recent handler
    custList,   \* CustomerList: its segment prop and its state
    prodGrid,   \* ProductGrid: its category prop and its state
    dash,       \* Dashboard, the version loading with Promise.all
    dashPage,   \* Dashboard, the version of app/dashboard/page.tsx
    recEngine,  \* RecommendationEngine of app/dashboard/components
    prodPerf,   \* ProductPerformance of app/dashboard/components
    revChart,   \* RevenueChart of app/dashboard/components
    dataTest,   \* DataTestPage
    analytics,  \* AnalyticsPage
    revMetrics, \* RevenueMetrics, rendered by AnalyticsPage with its time range
    home,       \* Home
    custSegs    \* CustomerSegments of app/dashboard/components

vars == <<env, baseURL, variant, today, started, called, issued, inflight, last, console,
          custList, prodGrid, dash, dashPage,
          recEngine, prodPerf, revChart, dataTest, analytics, revMetrics, home, custSegs>>

(***************************************************************************)
(* Bounds of the model.                                                    *)
(***************************************************************************)
\* HTTP requests a behaviour may send
MaxRequests == 6
\* calls a caller outside the views may make
MaxDirectCalls == 4
\* runs of the loaders of the list views a behaviour may start
MaxListLoads == 2
\* clock steps per request timeout (the clock advances timeout / TicksPerTimeout)
TicksPerTimeout == 2
\* number of Math.random() draws distinguished per call of getMockData
RandomStreams == 2
\* runs of the async functions of the dashboard components and of the other pages
MaxPanelRuns == 4

(***************************************************************************)
(* Optional values and decimal literals.                                   *)
(***************************************************************************)
None == <<>>
Some(v) == <<v>>
\* a JavaScript default parameter: `x = d` takes d when the argument is undefined
OrDefault(x, d) == IF x = None THEN d ELSE x[1]
\* truthiness of an optional string: undefined and '' are falsy
Truthy(x) == x # None /\ x[1] # ""
Frac(n, d) == [num |-> n, den |-> d]

(***************************************************************************)
(* Text.                                                                   *)
(***************************************************************************)
\* String.prototype.includes
Includes(s, sub) ==
    \E i \in 1..(Len(s) + 1) :
        /\ i + Len(sub) - 1 <= Len(s)
        /\ SubSeq(s, i, i + Len(sub) - 1) = sub

DASHBOARD_SUMMARY == <<"dashboard", "-", "summary">>
CUSTOMER_SEGMENTS == <<"customer", "-", "segments">>
REVENUE == <<"revenue">>

\* the URL literals of the fetch functions
UrlDashboardSummary == <<"/", "analytics", "/">> \o DASHBOARD_SUMMARY
UrlCustomerSegments == <<"/", "analytics", "/">> \o CUSTOMER_SEGMENTS
UrlRevenue == <<"/", "analytics", "/">> \o REVENUE
UrlProducts == <<"/", "products">>
UrlCustomers == <<"/", "customers">>
UrlRecommendations == <<"/", "recommendations">>
UrlHealth == <<"/", "health">>

\* `${new URLSearchParams({limit, offset})}` with an appended optional filter
SearchParams(limit, offset, key, filter) ==
    <<"limit", "=", ToString(limit), "&", "offset", "=", ToString(offset)>>
        \o (IF Truthy(filter) THEN <<"&", key, "=", filter[1]>> ELSE <<>>)

(***************************************************************************)
(* Dates.  A Date is the number of its calendar day, counted from          *)
(* 2023-01-01 = 0 (UTC; the time of day is not modelled).  toISOString     *)
(* turns it into the year, month and day fields of the ISO-8601 text.      *)
(***************************************************************************)
IsLeap(y) == (y % 4 = 0 /\ y % 100 # 0) \/ y % 400 = 0
DaysInYear(y) == IF IsLeap(y) THEN 366 ELSE 365
DaysInMonth(y, m) ==
    IF m = 2 THEN (IF IsLeap(y) THEN 29 ELSE 28)
    ELSE IF m \in {4, 6, 9, 11} THEN 30 ELSE 31

RECURSIVE YearOf(_, _)
\* the year holding day `d`, counted from 1 January of year `y` (d may be negative)
YearOf(d, y) ==
    IF d < 0 THEN YearOf(d + DaysInYear(y - 1), y - 1)
    ELSE IF d >= DaysInYear(y) THEN YearOf(d - DaysInYear(y), y + 1)
    ELSE [year |-> y, rest |-> d]

RECURSIVE MonthOf(_, _, _)
MonthOf(d, y, m) ==
    IF d >= DaysInMonth(y, m) THEN MonthOf(d - DaysInMonth(y, m), y, m + 1)
    ELSE [month |-> m, day |-> d + 1]

\* Date.prototype.toISOString
ToISOString(date) ==
    LET yr == YearOf(date, 2023)
        md == MonthOf(yr.rest, yr.year, 1)
    IN  [year |-> yr.year, month |-> md.month, day |-> md.day]

\* date.setDate(date.getDate() - n)
MinusDays(date, n) == date - n

RECURSIVE DaysBeforeYear(_)
DaysBeforeYear(y) ==
    IF y = 2023 THEN 0
    ELSE IF y > 2023 THEN DaysBeforeYear(y - 1) + DaysInYear(y - 1)
    ELSE DaysBeforeYear(y + 1) - DaysInYear(y)

RECURSIVE DaysBeforeMonth(_, _)
DaysBeforeMonth(y, m) == IF m = 1 THEN 0 ELSE DaysBeforeMonth(y, m - 1) + DaysInMonth(y, m - 1)

\* the Date of year y, month m, day d; a day past the end of the month runs over
\* into the next month, as Date does
DateOf(y, m, d) == DaysBeforeYear(y) + DaysBeforeMonth(y, m) + (d - 1)

\* date.setFullYear(date.getFullYear() - 1)
MinusYear(date) ==
    LET iso == ToISOString(date) IN DateOf(iso.year - 1, iso.month, iso.day)

\* ISO-8601 texts order as their dates do: year, then month, then day
IsoBefore(a, b) ==
    \/ a.year < b.year
    \/ a.year = b.year /\ a.month < b.month
    \/ a.year = b.year /\ a.month = b.month /\ a.day < b.day

(***************************************************************************)
(* JavaScript values: an array, an object, an axios response envelope and  *)
(* an AxiosError.                                                          *)
(***************************************************************************)
Arr(items) == [kind |-> "array", items |-> items]
Obj(fields) == [kind |-> "object", fields |-> fields]
Response(status, data) == [kind |-> "response", status |-> status, data |-> data]
AxiosError(code, status, config) ==
    [kind |-> "error", code |-> code, status |-> status, config |-> config]

(***************************************************************************)
(* The axios instance.                                                     *)
(***************************************************************************)
Variants == {"mockRevenue", "mock", "plain"}

\* the values the environment may give NEXT_PUBLIC_API_URL: unset, empty, a URL
Envs == {None, Some(""), Some("https://api.example.com/api/v1")}

\* mutant: the fallback is taken with ?? instead of ||
API_BASE_URL_Nullish(e) == IF e = None THEN "http://localhost:8000/api/v1" ELSE e[1]

\* process.env.NEXT_PUBLIC_API_URL || 'http://localhost:8000/api/v1'
API_BASE_URL(e) == IF Truthy(e) THEN e[1] ELSE "http://localhost:8000/api/v1"

TIMEOUT == 10000

\* the `timeout` option of axios.create; axios takes 0, its default, as no timeout
ClientTimeout(v) == IF v = "plain" THEN 0 ELSE TIMEOUT

\* whether api.interceptors.response.use(...) is called on the instance
HasInterceptor(v) == v # "plain"

\* the calendar days `new Date()` may fall on: 2024-03-15 and 2025-01-10
Todays == {439, 740}

\* one Math.random() draw of stream `k`, as a number of quarters in [0, 1)
RandomQuarters(k, n) == (k + n) % 4

\* the loop of getMockData generating 30 days of revenue data, run on `day` with the
\* draws of `stream`; iteration i of the loop makes element i + 1 of the array
DailyRevenue(day, stream) ==
    LET days == 30
        baseRevenue == 5000
    IN  [n \in 1..days |->
           LET i == n - 1 IN
           [date |-> ToISOString(MinusDays(day, days - i)),
            revenue |-> Frac(4 * baseRevenue + RandomQuarters(stream, 2 * i) * 3000
                               + 4 * (i * 50), 4),
            orders |-> (4 * 50 + RandomQuarters(stream, 2 * i + 1) * 30 + 4 * (i * 2)) \div 4]]

\* DailyRevenue, evaluated once for each day and stream of the model
DailyRevenueOn == [day \in Todays, stream \in 0..(RandomStreams - 1) |-> DailyRevenue(day, stream)]

\* mutant: the segment list lacks its last entry
getMockDataTwoSegments(v, url, day, stream) ==
    IF Includes(url, CUSTOMER_SEGMENTS) THEN
        Arr(<<[segment_name |-> "Champions", customer_count |-> 2450, percentage |-> Frac(49, 2)],
              [segment_name |-> "Loyal", customer_count |-> 3200, percentage |-> Frac(32, 1)]>>)
    ELSE Arr(<<>>)

\* mutant: a path outside the table gets the segment list
getMockDataNoDefault(v, url, day, stream) ==
    IF Includes(url, DASHBOARD_SUMMARY) THEN Obj([database_status |-> "operational"])
    ELSE Arr(<<[segment_name |-> "Champions", customer_count |-> 2450,
                percentage |-> Frac(49, 2)]>>)

\* mutant: the counts of the segment list are drawn at random
getMockDataRandomSegments(v, url, day, stream) ==
    IF Includes(url, CUSTOMER_SEGMENTS) THEN
        Arr(<<[segment_name |-> "Champions", customer_count |-> 2450 + RandomQuarters(stream, 0),
               percentage |-> Frac(49, 2)],
              [segment_name |-> "Loyal", customer_count |-> 3200, percentage |-> Frac(32, 1)],
              [segment_name |-> "Potential", customer_count |-> 1800, percentage |-> Frac(18, 1)]>>)
    ELSE Arr(<<>>)

\* the mock table of the response interceptor
getMockData(v, url, day, stream) ==
    IF Includes(url, DASHBOARD_SUMMARY) THEN
        Obj([total_customers |-> 12543,
             total_products |-> 3421,
             total_purchases |-> 45632,
             total_revenue |-> 2456789,
             revenue_30d |-> 245678,
             revenue_growth_30d |-> Frac(47, 2),
             active_customers_30d |-> 3456,
             new_customers_30d |-> 234,
             database_status |-> "operational"])
    ELSE IF Includes(url, CUSTOMER_SEGMENTS) THEN
        Arr(<<[segment_name |-> "Champions", customer_count |-> 2450, percentage |-> Frac(49, 2)],
              [segment_name |-> "Loyal", customer_count |-> 3200, percentage |-> Frac(32, 1)],
              [segment_name |-> "Potential", customer_count |-> 1800, percentage |-> Frac(18, 1)]>>)
    ELSE IF v = "mockRevenue" /\ Includes(url, REVENUE) THEN
        LET data == DailyRevenueOn[day, stream]
        IN  Obj([total_revenue |-> 234500,
                 order_count |-> 4567,
                 avg_order_value |-> Frac(5123, 100),
                 growth_rate |-> Frac(47, 2),
                 daily_revenue |-> data])
    ELSE Arr(<<>>)

\* the effect of a promise handler: how the promise it returns settles, what it
\* writes to the console and the requests it sends
Effect(outcome, value, lines, sends) ==
    [outcome |-> outcome, value |-> value, lines |-> lines, sends |-> sends]

\* response => response.data
OnFulfilled(response) == Effect("resolved", response.data, <<>>, 0)

\* mutant: the handler masks every error
OnRejectedMaskAll(v, error, day, stream) ==
    Effect("resolved", getMockData(v, error.config.url, day, stream),
           <<"API Error", "using mock data">>, 0)

\* mutant: the handler masks ECONNREFUSED alone
OnRejectedOnlyRefused(v, error, day, stream) ==
    IF error.code = "ECONNREFUSED"
    THEN Effect("resolved", getMockData(v, error.config.url, day, stream),
                <<"API Error", "using mock data">>, 0)
    ELSE Effect("rejected", error, <<"API Error">>, 0)

\* mutant: the handler sends the request again before it masks the failure
OnRejectedRetry(v, error, day, stream) ==
    IF error.code = "ECONNREFUSED" \/ error.code = "ERR_NETWORK"
    THEN Effect("resolved", getMockData(v, error.config.url, day, stream),
                <<"API Error", "using mock data">>, 1)
    ELSE Effect("rejected", error, <<"API Error">>, 0)

\* mutant: the error is logged only when it is passed on
OnRejectedLogOnReject(v, error, day, stream) ==
    IF error.code = "ECONNREFUSED" \/ error.code = "ERR_NETWORK"
    THEN Effect("resolved", getMockData(v, error.config.url, day, stream),
                <<"using mock data">>, 0)
    ELSE Effect("rejected", error, <<"API Error">>, 0)

\* the error handler of the response interceptor
OnRejected(v, error, day, stream) ==
    IF error.code = "ECONNREFUSED" \/ error.code = "ERR_NETWORK"
    THEN Effect("resolved", getMockData(v, error.config.url, day, stream),
                <<"API Error", "using mock data">>, 0)
    ELSE Effect("rejected", error, <<"API Error">>, 0)

\* mutant: no interceptor is installed on the instance
ApiSettleBare(v, raw, day, stream) ==
    Effect(IF raw.kind = "response" THEN "resolved" ELSE "rejected", raw, <<>>, 0)

\* how the promise of api.get / api.post settles, given what the adapter produced:
\* a response envelope or an AxiosError
ApiSettle(v, raw, day, stream) ==
    IF HasInterceptor(v)
    THEN IF raw.kind = "response" THEN OnFulfilled(raw) ELSE OnRejected(v, raw, day, stream)
    ELSE Effect(IF raw.kind = "response" THEN "resolved" ELSE "rejected", raw, <<>>, 0)

\* mutant: the function returns the response, not response.data
FetchSettleNoUnwrap(v, raw, day, stream) == ApiSettle(v, raw, day, stream)

\* how the promise of a typed fetch function settles: with the interceptor it is the
\* promise of api.get itself; without, the function awaits it and returns response.data
FetchSettle(v, raw, day, stream) ==
    LET s == ApiSettle(v, raw, day, stream)
    IN  IF HasInterceptor(v) \/ s.outcome = "rejected" THEN s
        ELSE Effect("resolved", s.value.data, s.lines, s.sends)

(***************************************************************************)
(* The typed fetch functions.  A call is a record of the function's name   *)
(* and its arguments; each function builds one request config.             *)
(***************************************************************************)
Config(method, url, params, data) ==
    [method |-> method, url |-> url, params |-> params, data |-> data]

\* a property of an object literal: `present` tells whether the key exists, and
\* the value of an existing key may be undefined
Field(present, val) == [present |-> present, val |-> val]
Absent == Field(FALSE, None)

Call(fn, limit, offset, filter, startDate, endDate, customerId, algorithm, includeExplanation) ==
    [fn |-> fn, limit |-> limit, offset |-> offset, filter |-> filter,
     startDate |-> startDate, endDate |-> endDate, customerId |-> customerId,
     algorithm |-> algorithm, includeExplanation |-> includeExplanation]

NoArgs(fn) == Call(fn, None, None, None, None, None, None, None, None)

\* startDate?.toISOString()
OptISO(d) == IF d = None THEN None ELSE Some(ToISOString(d[1]))

fetchDashboardSummary(v, c) == Config("get", UrlDashboardSummary, None, None)

fetchCustomerSegments(v, c) == Config("get", UrlCustomerSegments, None, None)

\* mutant: the end date is sent only together with a start date
fetchRevenueAnalyticsCoupled(v, c) ==
    LET end == IF c.startDate # None THEN c.endDate ELSE None
    IN  IF v = "mockRevenue"
        THEN Config("get", UrlRevenue,
                    Some([start_date |-> IF c.startDate # None
                                         THEN Field(TRUE, OptISO(c.startDate)) ELSE Absent,
                          end_date |-> IF end # None THEN Field(TRUE, OptISO(end)) ELSE Absent]),
                    None)
        ELSE Config("post", UrlRevenue, None,
                    Some([start_date |-> Field(TRUE, OptISO(c.startDate)),
                          end_date |-> Field(TRUE, OptISO(end))]))

fetchRevenueAnalytics(v, c) ==
    IF v = "mockRevenue"
    THEN Config("get", UrlRevenue,
                Some([start_date |-> IF c.startDate # None
                                     THEN Field(TRUE, OptISO(c.startDate)) ELSE Absent,
                      end_date |-> IF c.endDate # None
                                   THEN Field(TRUE, OptISO(c.endDate)) ELSE Absent]),
                None)
    ELSE Config("post", UrlRevenue, None,
                Some([start_date |-> Field(TRUE, OptISO(c.startDate)),
                      end_date |-> Field(TRUE, OptISO(c.endDate))]))

\* mutant: a filter that is not given is sent with the empty value
FetchListEmptyFilter(v, c, url, key) ==
    LET limit == OrDefault(c.limit, 50)
        offset == OrDefault(c.offset, 0)
        filter == Some(OrDefault(c.filter, ""))
    IN  IF v = "mockRevenue"
        THEN Config("get", url,
                    Some([limit |-> limit, offset |-> offset, key |-> key, filter |-> filter]),
                    None)
        ELSE Config("get", url \o <<"?">> \o SearchParams(limit, offset, key, None)
                                 \o <<"&", key, "=", filter[1]>>,
                    None, None)

\* mutant: the page size defaults to 20
FetchListTwenty(v, c, url, key) ==
    LET limit == OrDefault(c.limit, 20)
        offset == OrDefault(c.offset, 0)
    IN  IF v = "mockRevenue"
        THEN Config("get", url,
                    Some([limit |-> limit, offset |-> offset, key |-> key,
                          filter |-> IF Truthy(c.filter) THEN c.filter ELSE None]),
                    None)
        ELSE Config("get", url \o <<"?">> \o SearchParams(limit, offset, key, c.filter),
                    None, None)

\* fetchProducts and fetchCustomers differ in the path and in the filter's key
FetchList(v, c, url, key) ==
    LET limit == OrDefault(c.limit, 50)
        offset == OrDefault(c.offset, 0)
    IN  IF v = "mockRevenue"
        THEN Config("get", url,
                    Some([limit |-> limit, offset |-> offset, key |-> key,
                          filter |-> IF Truthy(c.filter) THEN c.filter ELSE None]),
                    None)
        ELSE Config("get", url \o <<"?">> \o SearchParams(limit, offset, key, c.filter),
                    None, None)

\* mutant: the filter of the products is sent under the key of the customers
fetchProductsSegmentKey(v, c) == FetchList(v, c, UrlProducts, "segment")

fetchProducts(v, c) == FetchList(v, c, UrlProducts, "category")

fetchCustomers(v, c) == FetchList(v, c, UrlCustomers, "segment")

\* mutant: the limit defaults to the page size of the lists
fetchRecommendationsFifty(v, c) ==
    Config("post", UrlRecommendations, None,
           Some([customer_id |-> c.customerId[1],
                 algorithm |-> OrDefault(c.algorithm, "hybrid"),
                 limit |-> OrDefault(c.limit, 50),
                 include_explanation |-> OrDefault(c.includeExplanation, FALSE)]))

fetchRecommendations(v, c) ==
    Config("post", UrlRecommendations, None,
           Some([customer_id |-> c.customerId[1],
                 algorithm |-> OrDefault(c.algorithm, "hybrid"),
                 limit |-> OrDefault(c.limit, 10),
                 include_explanation |-> OrDefault(c.includeExplanation, FALSE)]))

checkHealth(v, c) == Config("get", UrlHealth, None, None)

\* a call of a function of the third version of the client that takes an
\* identifier (sku, id, productSku) or a number of days
CallOn(fn, id, limit, offset, days) ==
    [id |-> id, days |-> days]
        @@ Call(fn, limit, offset, None, None, None, None, None, None)

\* `...?limit=${limit}&offset=${offset}` of a template literal
LimitOffset(limit, offset) ==
    <<"?", "limit", "=", ToString(limit), "&", "offset", "=", ToString(offset)>>

fetchBasketAnalysis(v, c) ==
    Config("get", <<"/", "analytics", "/", "basket", "-", "analysis">>, None, None)

fetchProductPerformance(v, c) ==
    Config("get", <<"/", "analytics", "/", "product", "/", c.id, "/", "performance">>, None, None)

fetchProduct(v, c) == Config("get", UrlProducts \o <<"/", c.id>>, None, None)

fetchSimilarProducts(v, c) ==
    Config("get", UrlProducts \o <<"/", c.id, "/", "similar", "?", "limit", "=",
                                   ToString(OrDefault(c.limit, 10))>>, None, None)

fetchProductReviews(v, c) ==
    Config("get", UrlProducts \o <<"/", c.id, "/", "reviews">>
                    \o LimitOffset(OrDefault(c.limit, 20), OrDefault(c.offset, 0)),
           None, None)

fetchCustomer(v, c) == Config("get", UrlCustomers \o <<"/", c.id>>, None, None)

fetchCustomerPurchaseHistory(v, c) ==
    Config("get", UrlCustomers \o <<"/", c.id, "/", "purchase", "-", "history">>
                    \o LimitOffset(OrDefault(c.limit, 20), OrDefault(c.offset, 0)),
           None, None)

fetchCustomerAnalytics(v, c) ==
    Config("get", UrlCustomers \o <<"/", c.id, "/", "analytics">>, None, None)

fetchPopularProducts(v, c) ==
    Config("get", UrlRecommendations \o <<"/", "popular", "?", "limit", "=",
                                          ToString(OrDefault(c.limit, 10))>>
                    \o (IF Truthy(c.filter) THEN <<"&", "category", "=", c.filter[1]>> ELSE <<>>),
           None, None)

fetchTrendingProducts(v, c) ==
    Config("get", UrlRecommendations \o <<"/", "trending", "?", "limit", "=",
                                          ToString(OrDefault(c.limit, 10)), "&", "days", "=",
                                          ToString(OrDefault(c.days, 7))>>,
           None, None)

fetchCrossSellProducts(v, c) ==
    Config("post", UrlRecommendations \o <<"/", "cross", "-", "sell">>,
           Some([limit |-> OrDefault(c.limit, 5)]),
           Some([product_sku |-> c.id]))

\* the functions each version of the client exports
Exports(v) ==
    {"fetchDashboardSummary", "fetchCustomerSegments", "fetchRevenueAnalytics", "fetchProducts",
     "fetchCustomers", "fetchRecommendations", "checkHealth"}
    \cup (IF v = "plain"
          THEN {"fetchBasketAnalysis", "fetchProductPerformance", "fetchProduct",
                "fetchSimilarProducts", "fetchProductReviews", "fetchCustomer",
                "fetchCustomerPurchaseHistory", "fetchCustomerAnalytics",
                "fetchPopularProducts", "fetchTrendingProducts", "fetchCrossSellProducts"}
          ELSE {})

\* the request a call sends
RequestOf(v, c) ==
    CASE c.fn = "fetchDashboardSummary" -> fetchDashboardSummary(v, c)
      [] c.fn = "fetchCustomerSegments" -> fetchCustomerSegments(v, c)
      [] c.fn = "fetchRevenueAnalytics" -> fetchRevenueAnalytics(v, c)
      [] c.fn = "fetchProducts" -> fetchProducts(v, c)
      [] c.fn = "fetchCustomers" -> fetchCustomers(v, c)
      [] c.fn = "fetchRecommendations" -> fetchRecommendations(v, c)
      [] c.fn = "checkHealth" -> checkHealth(v, c)
      [] c.fn = "fetchBasketAnalysis" -> fetchBasketAnalysis(v, c)
      [] c.fn = "fetchProductPerformance" -> fetchProductPerformance(v, c)
      [] c.fn = "fetchProduct" -> fetchProduct(v, c)
      [] c.fn = "fetchSimilarProducts" -> fetchSimilarProducts(v, c)
      [] c.fn = "fetchProductReviews" -> fetchProductReviews(v, c)
      [] c.fn = "fetchCustomer" -> fetchCustomer(v, c)
      [] c.fn = "fetchCustomerPurchaseHistory" -> fetchCustomerPurchaseHistory(v, c)
      [] c.fn = "fetchCustomerAnalytics" -> fetchCustomerAnalytics(v, c)
      [] c.fn = "fetchPopularProducts" -> fetchPopularProducts(v, c)
      [] c.fn = "fetchTrendingProducts" -> fetchTrendingProducts(v, c)
      [] c.fn = "fetchCrossSellProducts" -> fetchCrossSellProducts(v, c)

(***************************************************************************)
(* What a request carries on the wire.                                     *)
(***************************************************************************)
\* the path of a URL: the text before '?'
Path(url) ==
    LET marks == {i \in 1..Len(url) : url[i] = "?"}
    IN  IF marks = {} THEN url
        ELSE SubSeq(url, 1, (CHOOSE i \in marks : \A j \in marks : i <= j) - 1)

\* the query string of a URL: the text after '?'
QueryText(url) == SubSeq(url, Len(Path(url)) + 2, Len(url))

\* the key=value pairs of a query string, split at '&' and '='
ParseQuery(text) ==
    [n \in 1..((Len(text) + 1) \div 4) |-> <<text[4 * n - 3], text[4 * n - 1]>>]

\* axios serializing the `params` object of a list request: a key whose value is
\* undefined is left out
ParamsQuery(params) ==
    <<<<"limit", ToString(params.limit)>>, <<"offset", ToString(params.offset)>>>>
        \o (IF params.filter # None THEN <<<<params.key, params.filter[1]>>>> ELSE <<>>)

\* the query parameters a list request carries
Query(config) ==
    IF config.params # None THEN ParamsQuery(config.params[1])
    ELSE ParseQuery(QueryText(config.url))

\* an object as serialized into the query string or into the JSON body: a key that
\* was never assigned, or whose value is undefined, is left out
Serialized(fields) ==
    [k \in {k \in DOMAIN fields : fields[k].present /\ fields[k].val # None}
       |-> fields[k].val[1]]

\* the fields the revenue request sends, as query parameters or as body
RevenueFields(config) ==
    Serialized(IF config.params # None THEN config.params[1] ELSE config.data[1])

(***************************************************************************)
(* The back end, as far as the front end sees it: what a 2xx response to a *)
(* request may carry.                                                      *)
(***************************************************************************)
CustomerRows ==
    <<[customer_id |-> "C1", segment |-> "champions"],
      [customer_id |-> "C2", segment |-> "loyal"]>>

ProductRows ==
    <<[sku |-> "P1", category |-> "electronics"],
      [sku |-> "P2", category |-> "home"]>>

\* rows of a table whose `col` is the filter, all rows without a filter
Select(rows, filter, col) ==
    LET keep == {i \in 1..Len(rows) : filter = None \/ rows[i][col] = filter[1]}
        F[i \in 0..Len(rows)] ==
            IF i = 0 THEN <<>>
            ELSE IF i \in keep THEN Append(F[i - 1], rows[i]) ELSE F[i - 1]
    IN  F[Len(rows)]

ServerSummary ==
    Obj([total_customers |-> 2, total_products |-> 2, total_purchases |-> 5,
         total_revenue |-> 900, revenue_30d |-> 300, revenue_growth_30d |-> Frac(3, 2),
         active_customers_30d |-> 2, new_customers_30d |-> 1,
         database_status |-> "operational"])

ServerSegments ==
    Arr(<<[segment_name |-> "Champions", customer_count |-> 1, percentage |-> Frac(50, 1)],
          [segment_name |-> "At Risk", customer_count |-> 1, percentage |-> Frac(50, 1)]>>)

ServerRevenue ==
    Obj([summary |-> [total_revenue |-> 900, order_count |-> 5],
         daily_breakdown |-> [dates |-> <<>>, revenues |-> <<>>]])

ServerRecommendations == Arr(<<[sku |-> "P1", category |-> "electronics"]>>)

\* the recommendations computed for the customer and with the algorithm of the request
ServerRecommendationsFor(c) ==
    Arr(<<[sku |-> "P1", category |-> "electronics",
           customer_id |-> OrDefault(c.customerId, ""),
           algorithm |-> OrDefault(c.algorithm, "hybrid")]>>)

\* the performance of product `sku`
ServerPerformance(sku) ==
    Obj([sku |-> sku, revenue |-> 300, units_sold |-> 3, unique_customers |-> 2,
         trend |-> "increasing"])

ServerHealth == Obj([status |-> "healthy"])

\* the bodies a 2xx response to call `c` may carry
ServerPayloads(c) ==
    CASE c.fn = "fetchDashboardSummary" -> {ServerSummary}
      [] c.fn = "fetchCustomerSegments" -> {ServerSegments, Arr(<<>>)}
      [] c.fn = "fetchRevenueAnalytics" -> {ServerRevenue}
      [] c.fn = "fetchProducts" -> {Arr(Select(ProductRows, c.filter, "category")), Arr(<<>>)}
      [] c.fn = "fetchCustomers" -> {Arr(Select(CustomerRows, c.filter, "segment")), Arr(<<>>)}
      [] c.fn = "fetchRecommendations" -> {ServerRecommendationsFor(c), Arr(<<>>)}
      [] c.fn = "fetchProductPerformance" -> {ServerPerformance(c.id)}
      [] c.fn = "checkHealth" -> {ServerHealth}
      [] c.fn \in {"fetchProduct", "fetchCustomer", "fetchBasketAnalysis",
                   "fetchCustomerAnalytics"} -> {ServerHealth}
      [] OTHER -> {ServerRecommendations, Arr(<<>>)}

\* error statuses the back end answers with, and the code axios gives each
ErrorStatuses == {404, 500}
StatusCode(status) == IF status >= 500 THEN "ERR_BAD_RESPONSE" ELSE "ERR_BAD_REQUEST"

\* codes of an AxiosError raised when no response arrives: refused connection
\* (http adapter), network error (xhr adapter)
NetworkCodes == {"ECONNREFUSED", "ERR_NETWORK"}

(***************************************************************************)
(* State.                                                                  *)
(***************************************************************************)
\* who awaits a request: a caller outside the views ("direct"), or run `load` of
\* the loader of `view`, in position `slot` of its Promise.all
Owner(view, load, slot) == [view |-> view, load |-> load, slot |-> slot]

Request(c, config, owner) ==
    [call |-> c, config |-> config, age |-> 0, owner |-> owner]

\* state of a view before it is mounted
CustListInit == [mounted |-> FALSE, segment |-> "all", customers |-> Arr(<<>>), loading |-> TRUE]
ProdGridInit == [mounted |-> FALSE, category |-> "all", products |-> Arr(<<>>), loading |-> TRUE]

viewVars == <<custList, prodGrid, dash, dashPage>>

\* state of the components of the dashboard and of the other pages before they mount
RecEngineInit ==
    [mounted |-> FALSE, customers |-> Arr(<<>>), selectedCustomer |-> None,
     recommendations |-> Arr(<<>>), loading |-> FALSE, algorithm |-> "hybrid",
     showExplanations |-> TRUE]
ProdPerfInit ==
    [mounted |-> FALSE, products |-> Arr(<<>>), selectedProduct |-> None,
     performance |-> None, loading |-> TRUE]
RevChartInit ==
    [mounted |-> FALSE, data |-> Arr(<<>>), loading |-> TRUE, timeRange |-> 30,
     summary |-> [total |-> Some(0), average |-> Some(0), trend |-> Some("stable")]]
DataTestInit ==
    [mounted |-> FALSE, backendData |-> None, apiData |-> None, error |-> <<>>,
     loading |-> TRUE, direct |-> "idle", wrapper |-> "idle"]
AnalyticsInit == [mounted |-> FALSE, timeRange |-> "30d", loading |-> TRUE, data |-> None]
RevMetricsInit == [data |-> Arr(<<>>), loading |-> TRUE]
HomeInit == [mounted |-> FALSE, summary |-> None, loading |-> TRUE]
CustSegsInit ==
    [mounted |-> FALSE, segments |-> Arr(<<>>), loading |-> TRUE, selectedSegment |-> None]

panelVars == <<recEngine, prodPerf, revChart, dataTest, analytics, revMetrics, home, custSegs>>

(***************************************************************************)
(* Calling a fetch function: the call sends one request through the axios  *)
(* instance and returns the promise of its settlement.                     *)
(***************************************************************************)
\* run `load` of a loader of `view` calls the fetch functions `calls` in a row
Send(calls, view, load) ==
    /\ issued + Len(calls) <= MaxRequests
    /\ called' = called + Len(calls)
    /\ issued' = issued + Len(calls)
    /\ inflight' = inflight \cup
           {Request(calls[i], RequestOf(variant, calls[i]), Owner(view, load, i)) :
              i \in 1..Len(calls)}

\* the calls a caller outside the views makes, one after the other
DirectCalls ==
    {NoArgs("fetchDashboardSummary"), NoArgs("fetchCustomerSegments"), NoArgs("checkHealth"),
     NoArgs("fetchRevenueAnalytics"), NoArgs("fetchProducts"), NoArgs("fetchCustomers"),
     Call("fetchRevenueAnalytics", None, None, None, Some(MinusDays(today, 30)), Some(today),
          None, None, None),
     Call("fetchProducts", Some(10), Some(0), Some("electronics"), None, None, None, None, None),
     Call("fetchCustomers", Some(10), None, Some("potential"), None, None, None, None, None),
     Call("fetchRecommendations", None, None, None, None, None, Some("C1"), None, None),
     Call("fetchRecommendations", Some(6), None, None, None, None, Some("C1"),
          Some("collaborative"), Some(TRUE))}

\* the calls made to look at the requests the fetch functions build
RequestCalls ==
    {NoArgs("fetchProducts"),
     Call("fetchProducts", Some(50), Some(0), None, None, None, None, None, None),
     Call("fetchProducts", Some(50), Some(0), Some("electronics"), None, None, None, None, None),
     Call("fetchProducts", Some(50), Some(0), Some(""), None, None, None, None, None),
     Call("fetchProducts", Some(10), Some(20), Some("home"), None, None, None, None, None),
     NoArgs("fetchCustomers"),
     Call("fetchCustomers", Some(25), None, Some("loyal"), None, None, None, None, None),
     Call("fetchCustomers", None, None, Some(""), None, None, None, None, None),
     NoArgs("fetchPopularProducts"),
     Call("fetchPopularProducts", Some(5), None, Some("electronics"), None, None, None, None, None),
     Call("fetchPopularProducts", None, None, Some(""), None, None, None, None, None),
     NoArgs("fetchRevenueAnalytics"),
     Call("fetchRevenueAnalytics", None, None, None, Some(MinusDays(today, 30)), None,
          None, None, None),
     Call("fetchRevenueAnalytics", None, None, None, None, Some(today), None, None, None),
     Call("fetchRevenueAnalytics", None, None, None, Some(MinusDays(today, 30)), Some(today),
          None, None, None),
     Call("fetchRecommendations", None, None, None, None, None, Some("C1"), None, None),
     Call("fetchRecommendations", None, None, None, None, None, Some("C1"),
          Some("collaborative"), None),
     Call("fetchRecommendations", Some(6), None, None, None, None, Some("C1"), None, None),
     Call("fetchRecommendations", None, None, None, None, None, Some("C1"), None, Some(TRUE)),
     Call("fetchRecommendations", Some(6), None, None, None, None, Some("C2"),
          Some("collaborative"), Some(TRUE)),
     CallOn("fetchProductReviews", "P1", None, None, None),
     CallOn("fetchProductReviews", "P1", Some(5), Some(10), None),
     CallOn("fetchCustomerPurchaseHistory", "C1", None, None, None),
     CallOn("fetchCustomerPurchaseHistory", "C1", Some(5), Some(10), None),
     CallOn("fetchSimilarProducts", "P1", None, None, None),
     CallOn("fetchTrendingProducts", "", None, None, None),
     CallOn("fetchTrendingProducts", "", Some(5), None, Some(30)),
     CallOn("fetchCrossSellProducts", "P1", None, None, None),
     CallOn("fetchProduct", "P1", None, None, None),
     CallOn("fetchProductPerformance", "P1", None, None, None),
     CallOn("fetchCustomer", "C1", None, None, None),
     CallOn("fetchCustomerAnalytics", "C1", None, None, None),
     NoArgs("fetchBasketAnalysis"),
     NoArgs("fetchDashboardSummary"), NoArgs("fetchCustomerSegments"), NoArgs("checkHealth")}

DirectCall(c) ==
    /\ inflight = {}
    /\ started < MaxDirectCalls
    /\ started' = started + 1
    /\ Send(<<c>>, "direct", started + 1)
    /\ console' = <<>>
    /\ UNCHANGED <<panelVars, env, baseURL, variant, today, last, viewVars>>

(***************************************************************************)
(* CustomerList and ProductGrid: one fetch per run of the loader, started  *)
(* by the effect on mount and whenever the filter prop changes.            *)
(***************************************************************************)
\* the options of the segment select of CustomersPage and of ProductFilters
Segments == {"all", "champions", "loyal", "potential", "new", "at_risk"}
Categories == {"all", "Amazon Fashion", "Health and Personal Care", "electronics", "home",
               "sports"}

\* segment === 'all' ? undefined : segment
FilterArg(option) == IF option = "all" THEN None ELSE Some(option)

\* what a loader does once its fetch has settled: the view's new state and the
\* lines it writes to the console
Done(state, lines) == [state |-> state, lines |-> lines]

\* mutant: the loader does not store the list it is given
loadCustomersDoneDrop(state, eff) ==
    IF eff.outcome = "resolved"
    THEN Done([state EXCEPT !.loading = FALSE], <<>>)
    ELSE Done([state EXCEPT !.loading = FALSE], <<"Failed to load customers">>)

\* CustomerList.loadCustomers from the await on: try / catch / finally
loadCustomersDone(state, eff) ==
    IF eff.outcome = "resolved"
    THEN Done([state EXCEPT !.customers = eff.value, !.loading = FALSE], <<>>)
    ELSE Done([state EXCEPT !.loading = FALSE], <<"Failed to load customers">>)

\* ProductGrid.loadProducts from the await on
loadProductsDone(state, eff) ==
    IF eff.outcome = "resolved"
    THEN Done([state EXCEPT !.products = eff.value, !.loading = FALSE], <<>>)
    ELSE Done([state EXCEPT !.loading = FALSE], <<"Failed to load products">>)

\* CustomerList.loadCustomers up to the await
loadCustomers(segment) ==
    /\ started < MaxListLoads
    /\ started' = started + 1
    /\ Send(<<Call("fetchCustomers", Some(50), Some(0), FilterArg(segment),
                   None, None, None, None, None)>>,
            "custList", started + 1)

\* ProductGrid.loadProducts up to the await
loadProducts(category) ==
    /\ started < MaxListLoads
    /\ started' = started + 1
    /\ Send(<<Call("fetchProducts", Some(50), Some(0), FilterArg(category),
                   None, None, None, None, None)>>,
            "prodGrid", started + 1)

\* CustomersPage renders CustomerList: the effect runs loadCustomers
CustListMount ==
    /\ ~custList.mounted
    /\ custList' = [custList EXCEPT !.mounted = TRUE]
    /\ loadCustomers(custList.segment)
    /\ console' = <<>>
    /\ UNCHANGED <<panelVars, env, baseURL, variant, today, last, prodGrid, dash, dashPage>>

\* the user picks another segment: the prop changes and the effect runs again
CustListSegment(s) ==
    /\ custList.mounted
    /\ s # custList.segment
    /\ custList' = [custList EXCEPT !.segment = s]
    /\ loadCustomers(s)
    /\ console' = <<>>
    /\ UNCHANGED <<panelVars, env, baseURL, variant, today, last, prodGrid, dash, dashPage>>

ProdGridMount ==
    /\ ~prodGrid.mounted
    /\ prodGrid' = [prodGrid EXCEPT !.mounted = TRUE]
    /\ loadProducts(prodGrid.category)
    /\ console' = <<>>
    /\ UNCHANGED <<panelVars, env, baseURL, variant, today, last, custList, dash, dashPage>>

ProdGridCategory(c) ==
    /\ prodGrid.mounted
    /\ c # prodGrid.category
    /\ prodGrid' = [prodGrid EXCEPT !.category = c]
    /\ loadProducts(c)
    /\ console' = <<>>
    /\ UNCHANGED <<panelVars, env, baseURL, variant, today, last, custList, dash, dashPage>>

(***************************************************************************)
(* Dashboard, in its two versions.  The first loads summary, segments and  *)
(* revenue with Promise.all on mount, on a change of the time range and on *)
(* a click on Refresh; the second loads the summary on mount.  In both     *)
(* the controls are rendered only while loading is false.                  *)
(***************************************************************************)
TimeRanges == {"7d", "30d", "90d", "1y"}

\* the summary literal of the catch blocks of the two Dashboards
DashboardFallback ==
    Obj([total_customers |-> 12543,
         total_products |-> 3421,
         total_purchases |-> 45632,
         total_revenue |-> 2456789,
         revenue_30d |-> 245678,
         revenue_growth_30d |-> Frac(47, 2),
         active_customers_30d |-> 3456,
         new_customers_30d |-> 234,
         database_status |-> "operational"])

DashPageFallback ==
    Obj([total_customers |-> 12543,
         total_products |-> 3421,
         total_purchases |-> 45632,
         total_revenue |-> 2456789,
         revenue_30d |-> 245678,
         revenue_growth_30d |-> Frac(47, 2),
         active_customers_30d |-> 3456,
         new_customers_30d |-> 234])

DashInit ==
    [mounted |-> FALSE, timeRange |-> "30d", dashboardData |-> None,
     customerSegments |-> Arr(<<>>), revenueData |-> None, loading |-> TRUE,
     awaiting |-> {}]

DashPageInit ==
    [mounted |-> FALSE, timeRange |-> "30d", data |-> None, loading |-> TRUE]

\* the switch on timeRange of loadDashboardData
StartDate(timeRange, endDate) ==
    CASE timeRange = "7d" -> MinusDays(endDate, 7)
      [] timeRange = "30d" -> MinusDays(endDate, 30)
      [] timeRange = "90d" -> MinusDays(endDate, 90)
      [] timeRange = "1y" -> MinusYear(endDate)
      [] OTHER -> endDate

\* a pending Promise.all: the values its promises have resolved with so far
Pending(load) == [load |-> load, got |-> <<None, None, None>>]

\* mutant: the loader does not set loading to true
loadDashboardDataNoSpinner(timeRange, day) ==
    /\ started' = started + 1
    /\ dash' = [dash EXCEPT !.mounted = TRUE, !.timeRange = timeRange,
                            !.awaiting = @ \cup {[load |-> started + 1, got |-> <<None, None, None>>]}]
    /\ Send(<<NoArgs("fetchDashboardSummary"),
              NoArgs("fetchCustomerSegments"),
              Call("fetchRevenueAnalytics", None, None, None,
                   Some(StartDate(timeRange, day)), Some(day), None, None, None)>>,
            "dash", started + 1)

\* Dashboard.loadDashboardData up to the await
loadDashboardData(timeRange, day) ==
    /\ started' = started + 1
    /\ dash' = [dash EXCEPT !.mounted = TRUE, !.timeRange = timeRange, !.loading = TRUE,
                            !.awaiting = @ \cup {Pending(started + 1)}]
    /\ Send(<<NoArgs("fetchDashboardSummary"),
              NoArgs("fetchCustomerSegments"),
              Call("fetchRevenueAnalytics", None, None, None,
                   Some(StartDate(timeRange, day)), Some(day), None, None, None)>>,
            "dash", started + 1)

\* mutant: the three fetches are awaited one by one, each value stored as it arrives
loadDashboardDataDonePartial(state, owner, eff) ==
    LET mine == {p \in state.awaiting : p.load = owner.load} IN
    IF mine = {} THEN Done(state, <<>>)
    ELSE LET p == CHOOSE q \in mine : TRUE
             others == state.awaiting \ {p}
             got == [p.got EXCEPT ![owner.slot] = Some(eff.value)]
             stored == CASE owner.slot = 1 -> [state EXCEPT !.dashboardData = Some(eff.value)]
                         [] owner.slot = 2 -> [state EXCEPT !.customerSegments = eff.value]
                         [] OTHER -> [state EXCEPT !.revenueData = Some(eff.value)]
         IN  IF eff.outcome = "rejected"
             THEN Done([state EXCEPT !.dashboardData = Some(DashboardFallback),
                                     !.loading = FALSE, !.awaiting = others],
                       <<"Failed to load dashboard">>)
             ELSE IF \A i \in 1..3 : got[i] # None
             THEN Done([stored EXCEPT !.loading = FALSE, !.awaiting = others], <<>>)
             ELSE Done([stored EXCEPT !.awaiting = others \cup {[p EXCEPT !.got = got]}], <<>>)

\* Dashboard.loadDashboardData from the await on, when the promise of request `owner`
\* settles: Promise.all rejects with the first rejection and resolves with the last
\* of its three values; a settlement after it has rejected resumes nothing
loadDashboardDataDone(state, owner, eff) ==
    LET mine == {p \in state.awaiting : p.load = owner.load} IN
    IF mine = {} THEN Done(state, <<>>)
    ELSE LET p == CHOOSE q \in mine : TRUE
             others == state.awaiting \ {p}
             got == [p.got EXCEPT ![owner.slot] = Some(eff.value)]
         IN  IF eff.outcome = "rejected"
             THEN Done([state EXCEPT !.dashboardData = Some(DashboardFallback),
                                     !.loading = FALSE, !.awaiting = others],
                       <<"Failed to load dashboard">>)
             ELSE IF \A i \in 1..3 : got[i] # None
             THEN Done([state EXCEPT !.dashboardData = got[1],
                                     !.customerSegments = got[2][1],
                                     !.revenueData = got[3],
                                     !.loading = FALSE, !.awaiting = others],
                       <<>>)
             ELSE Done([state EXCEPT !.awaiting = others \cup {[p EXCEPT !.got = got]}], <<>>)

DashMount ==
    /\ ~dash.mounted
    /\ loadDashboardData(dash.timeRange, today)
    /\ console' = <<>>
    /\ UNCHANGED <<panelVars, env, baseURL, variant, today, last, custList, prodGrid, dashPage>>

\* the user picks another time range: the effect runs again
DashTimeRange(t) ==
    /\ dash.mounted /\ ~dash.loading
    /\ t # dash.timeRange
    /\ loadDashboardData(t, today)
    /\ console' = <<>>
    /\ UNCHANGED <<panelVars, env, baseURL, variant, today, last, custList, prodGrid, dashPage>>

\* the user clicks Refresh Data
DashRefresh ==
    /\ dash.mounted /\ ~dash.loading
    /\ loadDashboardData(dash.timeRange, today)
    /\ console' = <<>>
    /\ UNCHANGED <<panelVars, env, baseURL, variant, today, last, custList, prodGrid, dashPage>>

\* mutant: the catch block only logs
loadDashboardDoneKeep(state, eff) ==
    IF eff.outcome = "resolved"
    THEN Done([state EXCEPT !.data = Some(eff.value), !.loading = FALSE], <<>>)
    ELSE Done([state EXCEPT !.loading = FALSE], <<"Failed to load dashboard">>)

\* Dashboard.loadDashboard from the await on
loadDashboardDone(state, eff) ==
    IF eff.outcome = "resolved"
    THEN Done([state EXCEPT !.data = Some(eff.value), !.loading = FALSE], <<>>)
    ELSE Done([state EXCEPT !.data = Some(DashPageFallback), !.loading = FALSE],
              <<"Failed to load dashboard">>)

\* the page mounts: the effect, which has no dependencies, runs loadDashboard
DashPageMount ==
    /\ ~dashPage.mounted
    /\ started' = started + 1
    /\ dashPage' = [dashPage EXCEPT !.mounted = TRUE]
    /\ Send(<<NoArgs("fetchDashboardSummary")>>, "dashPage", started + 1)
    /\ console' = <<>>
    /\ UNCHANGED <<panelVars, env, baseURL, variant, today, last, custList, prodGrid, dash>>

\* the time range select only sets the state: no effect depends on it
DashPageTimeRange(t) ==
    /\ dashPage.mounted /\ ~dashPage.loading
    /\ t # dashPage.timeRange
    /\ dashPage' = [dashPage EXCEPT !.timeRange = t]
    /\ console' = <<>>
    /\ UNCHANGED <<panelVars, env, baseURL, variant, today, started, called, issued, inflight, last, custList, prodGrid, dash>>

(***************************************************************************)
(* RecommendationEngine: the customers are loaded on mount and the first   *)
(* one is selected; an effect on [selectedCustomer, algorithm] and the     *)
(* Refresh button run generateRecommendations.                             *)
(***************************************************************************)
\* what a handler leaves behind when it may call fetch functions: the component's
\* new state, the lines written to the console and the calls made
Then(state, lines, calls) == [state |-> state, lines |-> lines, calls |-> calls]

\* a run of an async function of `view` makes `calls`
SendRun(calls, view) ==
    IF calls = <<>> THEN UNCHANGED <<started, called, issued, inflight>>
    ELSE started < MaxPanelRuns /\ started' = started + 1 /\ Send(calls, view, started + 1)

\* the options of the algorithm select
Algorithms == {"hybrid", "collaborative", "content", "graph", "trending"}

\* the values of the options of the customer select
CustomerOptions(state) ==
    {""} \cup (IF state.customers.kind = "array"
               THEN {state.customers.items[i].customer_id : i \in 1..Len(state.customers.items)}
               ELSE {})

\* mutant: generateRecommendations without its guard on selectedCustomer
generateRecommendationsUnguarded(state) ==
    Then([state EXCEPT !.loading = TRUE], <<>>,
         <<Call("fetchRecommendations", Some(6), None, None, None, None,
                IF state.selectedCustomer = None THEN Some("") ELSE state.selectedCustomer,
                Some(state.algorithm), Some(state.showExplanations))>>)

\* RecommendationEngine.generateRecommendations up to the await
generateRecommendations(state) ==
    IF ~Truthy(state.selectedCustomer) THEN Then(state, <<>>, <<>>)
    ELSE Then([state EXCEPT !.loading = TRUE], <<>>,
              <<Call("fetchRecommendations", Some(6), None, None, None, None,
                     state.selectedCustomer, Some(state.algorithm),
                     Some(state.showExplanations))>>)

\* the effect on [selectedCustomer, algorithm], run after a render that changed one
recommendationsEffect(state) ==
    IF Truthy(state.selectedCustomer) THEN generateRecommendations(state)
    ELSE Then(state, <<>>, <<>>)

\* RecommendationEngine.generateRecommendations from the await on
generateRecommendationsDone(state, eff) ==
    IF eff.outcome = "resolved"
    THEN Then([state EXCEPT !.recommendations = eff.value, !.loading = FALSE], <<>>, <<>>)
    ELSE Then([state EXCEPT !.loading = FALSE], <<"Failed to generate recommendations">>, <<>>)

\* RecommendationEngine.loadCustomers from the await on, and the effect that the
\* selection of the first customer triggers
recLoadCustomersDone(state, eff) ==
    IF eff.outcome = "rejected" THEN Then(state, <<"Failed to load customers">>, <<>>)
    ELSE LET data == eff.value
             stored == [state EXCEPT !.customers = data]
         IN  IF data.kind = "array" /\ Len(data.items) > 0
             THEN LET first == Some(data.items[1].customer_id)
                      selected == [stored EXCEPT !.selectedCustomer = first]
                  IN  IF first = state.selectedCustomer THEN Then(selected, <<>>, <<>>)
                      ELSE recommendationsEffect(selected)
             ELSE Then(stored, <<>>, <<>>)

\* the continuation of RecommendationEngine that a settled call resumes
RecEngineDone(state, c, eff) ==
    IF c.fn = "fetchCustomers" THEN recLoadCustomersDone(state, eff)
    ELSE generateRecommendationsDone(state, eff)

\* the component mounts: the first effect runs loadCustomers, the second finds no
\* customer selected
RecMount ==
    /\ ~recEngine.mounted
    /\ recEngine' = [recEngine EXCEPT !.mounted = TRUE]
    /\ SendRun(<<Call("fetchCustomers", Some(10), None, None, None, None, None, None, None)>>,
               "recEngine")
    /\ console' = <<>>
    /\ UNCHANGED <<env, baseURL, variant, today, last, viewVars,
                   prodPerf, revChart, dataTest, analytics, revMetrics, home, custSegs>>

\* the user picks another option of the customer select
RecSelectCustomer(id) ==
    /\ recEngine.mounted
    /\ id \in CustomerOptions(recEngine)
    /\ id # OrDefault(recEngine.selectedCustomer, "")
    /\ LET t == recommendationsEffect([recEngine EXCEPT !.selectedCustomer = Some(id)])
       IN  recEngine' = t.state /\ SendRun(t.calls, "recEngine")
    /\ console' = <<>>
    /\ UNCHANGED <<env, baseURL, variant, today, last, viewVars,
                   prodPerf, revChart, dataTest, analytics, revMetrics, home, custSegs>>

\* the user picks another algorithm
RecAlgorithm(a) ==
    /\ recEngine.mounted
    /\ a # recEngine.algorithm
    /\ LET t == recommendationsEffect([recEngine EXCEPT !.algorithm = a])
       IN  recEngine' = t.state /\ SendRun(t.calls, "recEngine")
    /\ console' = <<>>
    /\ UNCHANGED <<env, baseURL, variant, today, last, viewVars,
                   prodPerf, revChart, dataTest, analytics, revMetrics, home, custSegs>>

\* a click on Refresh
RecRefresh ==
    /\ recEngine.mounted
    /\ LET t == generateRecommendations(recEngine)
       IN  recEngine' = t.state /\ SendRun(t.calls, "recEngine")
    /\ console' = <<>>
    /\ UNCHANGED <<env, baseURL, variant, today, last, viewVars,
                   prodPerf, revChart, dataTest, analytics, revMetrics, home, custSegs>>

(***************************************************************************)
(* ProductPerformance: the products are loaded on mount and the first one  *)
(* is selected; an effect on [selectedProduct] loads its performance.      *)
(***************************************************************************)
\* the skus of the rows and of the cards rendered
ProductOptions(state) ==
    IF state.products.kind = "array"
    THEN {state.products.items[i].sku : i \in 1..Len(state.products.items)}
    ELSE {}

\* the effect on [selectedProduct]: loadProductPerformance up to the await
performanceEffect(state) ==
    IF Truthy(state.selectedProduct)
    THEN Then(state, <<>>,
              <<CallOn("fetchProductPerformance", state.selectedProduct[1], None, None, None)>>)
    ELSE Then(state, <<>>, <<>>)

\* ProductPerformance.loadProductPerformance from the await on
loadProductPerformanceDone(state, eff) ==
    IF eff.outcome = "resolved"
    THEN Then([state EXCEPT !.performance = Some(eff.value)], <<>>, <<>>)
    ELSE Then(state, <<"Failed to load product performance">>, <<>>)

\* ProductPerformance.loadProducts from the await on, and the effect that the
\* selection of the first product triggers
perfLoadProductsDone(state, eff) ==
    IF eff.outcome = "rejected"
    THEN Then([state EXCEPT !.loading = FALSE], <<"Failed to load products">>, <<>>)
    ELSE LET data == eff.value
             stored == [state EXCEPT !.products = data, !.loading = FALSE]
         IN  IF data.kind = "array" /\ Len(data.items) > 0
             THEN LET first == Some(data.items[1].sku)
                      selected == [stored EXCEPT !.selectedProduct = first]
                  IN  IF first = state.selectedProduct THEN Then(selected, <<>>, <<>>)
                      ELSE performanceEffect(selected)
             ELSE Then(stored, <<>>, <<>>)

\* the continuation of ProductPerformance that a settled call resumes
ProdPerfDone(state, c, eff) ==
    IF c.fn = "fetchProducts" THEN perfLoadProductsDone(state, eff)
    ELSE loadProductPerformanceDone(state, eff)

\* the component mounts, in a build whose lib/api exports fetchProductPerformance
ProdPerfMount ==
    /\ ~prodPerf.mounted
    /\ "fetchProductPerformance" \in Exports(variant)
    /\ prodPerf' = [prodPerf EXCEPT !.mounted = TRUE]
    /\ SendRun(<<Call("fetchProducts", Some(10), None, None, None, None, None, None, None)>>,
               "prodPerf")
    /\ console' = <<>>
    /\ UNCHANGED <<env, baseURL, variant, today, last, viewVars,
                   recEngine, revChart, dataTest, analytics, revMetrics, home, custSegs>>

\* a click on a row of the table or on a card of the grid, rendered once the
\* products have been loaded
ProdPerfSelect(sku) ==
    /\ prodPerf.mounted /\ ~prodPerf.loading
    /\ sku \in ProductOptions(prodPerf)
    /\ Some(sku) # prodPerf.selectedProduct
    /\ LET t == performanceEffect([prodPerf EXCEPT !.selectedProduct = Some(sku)])
       IN  prodPerf' = t.state /\ SendRun(t.calls, "prodPerf")
    /\ console' = <<>>
    /\ UNCHANGED <<env, baseURL, variant, today, last, viewVars,
                   recEngine, revChart, dataTest, analytics, revMetrics, home, custSegs>>

(***************************************************************************)
(* RevenueChart: the revenue of the last timeRange days is loaded on mount *)
(* and on a change of the time range; the select is rendered once loading  *)
(* is false.                                                               *)
(***************************************************************************)
\* the options of the time range select of RevenueChart
ChartRanges == {7, 30, 90}

\* obj.key is defined
Has(fields, key) == key \in DOMAIN fields

\* obj.key, undefined when the object has no such property
Get(fields, key) == IF Has(fields, key) THEN Some(fields[key]) ELSE None

\* array[index] || 0
OrZero(array, index) ==
    IF index \in DOMAIN array /\ array[index] # 0 THEN array[index] ELSE 0

MonthShort ==
    <<"Jan", "Feb", "Mar", "Apr", "May", "Jun", "Jul", "Aug", "Sep", "Oct", "Nov", "Dec">>

\* new Date(date).toLocaleDateString('en-US', {month: 'short', day: 'numeric'}), in UTC
toLocaleDateString(iso) == [month |-> MonthShort[iso.month], day |-> iso.day]

\* the response is an object with a daily_breakdown whose properties the map reads
\* are arrays: the lines that build chartData do not throw
Charts(response) ==
    /\ response.kind = "object"
    /\ Has(response.fields, "daily_breakdown")
    /\ Has(response.fields.daily_breakdown, "dates")
    /\ Len(response.fields.daily_breakdown.dates) > 0 =>
         \A key \in {"revenues", "orders", "customers"} :
            Has(response.fields.daily_breakdown, key)

\* response.daily_breakdown.dates.map(...)
chartData(response) ==
    LET b == response.fields.daily_breakdown IN
    Arr([i \in 1..Len(b.dates) |->
           [date |-> toLocaleDateString(b.dates[i]),
            revenue |-> OrZero(b.revenues, i),
            orders |-> OrZero(b.orders, i),
            customers |-> OrZero(b.customers, i)]])

\* the argument of setSummary
summaryOf(response) ==
    LET sm == response.fields.summary IN
    [total |-> Get(sm, "total_revenue"),
     average |-> Get(sm, "avg_daily_revenue"),
     trend |-> Get(sm, "trend")]

\* RevenueChart.loadRevenueData from the await on: a TypeError thrown by a read of
\* a property of undefined is caught like a rejection
loadRevenueDataDone(state, eff) ==
    IF eff.outcome = "rejected" \/ ~Charts(eff.value)
    THEN Then([state EXCEPT !.loading = FALSE], <<"Failed to load revenue data">>, <<>>)
    ELSE IF ~Has(eff.value.fields, "summary")
    THEN Then([state EXCEPT !.data = chartData(eff.value), !.loading = FALSE],
              <<"Failed to load revenue data">>, <<>>)
    ELSE Then([state EXCEPT !.data = chartData(eff.value),
                            !.summary = summaryOf(eff.value),
                            !.loading = FALSE], <<>>, <<>>)

\* RevenueChart.loadRevenueData up to the await
loadRevenueData(timeRange) ==
    SendRun(<<Call("fetchRevenueAnalytics", None, None, None,
                   Some(MinusDays(today, timeRange)), Some(today), None, None, None)>>,
            "revChart")

RevChartMount ==
    /\ ~revChart.mounted
    /\ revChart' = [revChart EXCEPT !.mounted = TRUE]
    /\ loadRevenueData(revChart.timeRange)
    /\ console' = <<>>
    /\ UNCHANGED <<env, baseURL, variant, today, last, viewVars,
                   recEngine, prodPerf, dataTest, analytics, revMetrics, home, custSegs>>

\* the user picks another time range
RevChartTimeRange(n) ==
    /\ revChart.mounted /\ ~revChart.loading
    /\ n # revChart.timeRange
    /\ revChart' = [revChart EXCEPT !.timeRange = n]
    /\ loadRevenueData(n)
    /\ console' = <<>>
    /\ UNCHANGED <<env, baseURL, variant, today, last, viewVars,
                   recEngine, prodPerf, dataTest, analytics, revMetrics, home, custSegs>>

(***************************************************************************)
(* DataTestPage: on mount the page calls the back end directly with fetch  *)
(* and, once '@/lib/api' is imported, through fetchDashboardSummary.  The  *)
(* fields direct and wrapper hold the position of the two promise chains;  *)
(* a text is the sequence of the pieces concatenated into it.              *)
(***************************************************************************)
\* err.toString() of the errors the direct call ends with: fetch rejects, or
\* res.json() rejects on a body that is not JSON
FetchErrors == {"TypeError: Failed to fetch", "SyntaxError: Unexpected token"}

\* err.toString() of the error fetchDashboardSummary rejects with
ErrorText(error) == "AxiosError: " \o error.code

\* the effect: fetch(...) is sent and the import of '@/lib/api' is started
DataTestMount ==
    /\ ~dataTest.mounted
    /\ dataTest' = [dataTest EXCEPT !.mounted = TRUE, !.direct = "pending",
                                    !.wrapper = "importing"]
    /\ console' = <<>>
    /\ UNCHANGED <<env, baseURL, variant, today, started, called, issued, inflight, last,
                   viewVars, recEngine, prodPerf, revChart, analytics, revMetrics, home,
                   custSegs>>

\* import('@/lib/api').then(...): fetchDashboardSummary() is called
DataTestImported ==
    /\ dataTest.wrapper = "importing"
    /\ dataTest' = [dataTest EXCEPT !.wrapper = "called"]
    /\ SendRun(<<NoArgs("fetchDashboardSummary")>>, "dataTest")
    /\ console' = <<>>
    /\ UNCHANGED <<env, baseURL, variant, today, last, viewVars,
                   recEngine, prodPerf, revChart, analytics, revMetrics, home, custSegs>>

\* the direct call is answered with a JSON body, whatever the status: setBackendData
DataTestDirectResponds(body) ==
    /\ dataTest.direct = "pending"
    /\ dataTest' = [dataTest EXCEPT !.direct = "resolved", !.backendData = Some(body)]
    /\ console' = <<>>
    /\ UNCHANGED <<env, baseURL, variant, today, started, called, issued, inflight, last,
                   viewVars, recEngine, prodPerf, revChart, analytics, revMetrics, home,
                   custSegs>>

\* the direct call fails: setError('Direct backend call failed: ' + err.toString())
DataTestDirectFails(err) ==
    /\ dataTest.direct = "pending"
    /\ err \in FetchErrors
    /\ dataTest' = [dataTest EXCEPT !.direct = "failed",
                      !.error = <<"Direct backend call failed: ", err>>]
    /\ console' = <<>>
    /\ UNCHANGED <<env, baseURL, variant, today, started, called, issued, inflight, last,
                   viewVars, recEngine, prodPerf, revChart, analytics, revMetrics, home,
                   custSegs>>

\* the handlers chained on fetchDashboardSummary()
dataTestWrapperDone(state, eff) ==
    IF eff.outcome = "resolved"
    THEN Then([state EXCEPT !.wrapper = "resolved", !.apiData = Some(eff.value),
                            !.loading = FALSE], <<>>, <<>>)
    ELSE Then([state EXCEPT !.wrapper = "failed",
                 !.error = @ \o <<"\nAPI wrapper call failed: ", ErrorText(eff.value)>>,
                 !.loading = FALSE], <<>>, <<>>)

(***************************************************************************)
(* AnalyticsPage and its RevenueMetrics, Home, CustomerSegments: loaders   *)
(* that clear loading in a finally block.                                  *)
(***************************************************************************)
\* several runs of async functions start in a row, each with one call
SendEach(entries) ==
    /\ started + Len(entries) <= MaxPanelRuns
    /\ issued + Len(entries) <= MaxRequests
    /\ started' = started + Len(entries)
    /\ called' = called + Len(entries)
    /\ issued' = issued + Len(entries)
    /\ inflight' = inflight \cup
           {Request(entries[i].call, RequestOf(variant, entries[i].call),
                    Owner(entries[i].view, started + i, 1)) : i \in 1..Len(entries)}

\* the characters of the values of the time range select
Characters(timeRange) ==
    CASE timeRange = "7d" -> <<"7", "d">>
      [] timeRange = "30d" -> <<"3", "0", "d">>
      [] timeRange = "90d" -> <<"9", "0", "d">>
      [] timeRange = "1y" -> <<"1", "y">>

Digits == [c \in {"0", "1", "2", "3", "4", "5", "6", "7", "8", "9"} |->
             CASE c = "0" -> 0 [] c = "1" -> 1 [] c = "2" -> 2 [] c = "3" -> 3 [] c = "4" -> 4
               [] c = "5" -> 5 [] c = "6" -> 6 [] c = "7" -> 7 [] c = "8" -> 8 [] c = "9" -> 9]

\* parseInt(text): the number its leading digits spell, NaN (<<>>) without any
parseInt(chars) ==
    LET P[i \in 0..Len(chars)] ==
            IF i = 0 THEN None
            ELSE IF chars[i] \notin DOMAIN Digits \/ (i > 1 /\ P[i - 1] = None) THEN P[i - 1]
            ELSE Some(10 * OrDefault(P[i - 1], 0) + Digits[chars[i]])
    IN  P[Len(chars)]

\* RevenueMetrics.loadRevenue: days = parseInt(timeRange) || 30, startDate
RevenueMetricsStart(timeRange, endDate) ==
    LET parsed == parseInt(Characters(timeRange))
        days == IF parsed = None \/ parsed = Some(0) THEN 30 ELSE parsed[1]
    IN  MinusDays(endDate, days)

\* the two effects on [timeRange]: AnalyticsPage.loadAnalytics and
\* RevenueMetrics.loadRevenue up to their awaits
analyticsEffects(timeRange) ==
    SendEach(<<[call |-> NoArgs("fetchDashboardSummary"), view |-> "analytics"],
               [call |-> Call("fetchRevenueAnalytics", None, None, None,
                              Some(RevenueMetricsStart(timeRange, today)), Some(today),
                              None, None, None),
                view |-> "revMetrics"]>>)

AnalyticsMount ==
    /\ ~analytics.mounted
    /\ analytics' = [analytics EXCEPT !.mounted = TRUE]
    /\ analyticsEffects(analytics.timeRange)
    /\ console' = <<>>
    /\ UNCHANGED <<env, baseURL, variant, today, last, viewVars,
                   recEngine, prodPerf, revChart, dataTest, revMetrics, home, custSegs>>

\* the user picks another time range
AnalyticsTimeRange(t) ==
    /\ analytics.mounted
    /\ t # analytics.timeRange
    /\ analytics' = [analytics EXCEPT !.timeRange = t]
    /\ analyticsEffects(t)
    /\ console' = <<>>
    /\ UNCHANGED <<env, baseURL, variant, today, last, viewVars,
                   recEngine, prodPerf, revChart, dataTest, revMetrics, home, custSegs>>

\* mutant: loading is cleared after the setter, not in a finally block
loadAnalyticsDoneNoFinally(state, eff) ==
    IF eff.outcome = "resolved"
    THEN Then([state EXCEPT !.data = Some(eff.value), !.loading = FALSE], <<>>, <<>>)
    ELSE Then(state, <<"Failed to load analytics">>, <<>>)

\* AnalyticsPage.loadAnalytics from the await on
loadAnalyticsDone(state, eff) ==
    IF eff.outcome = "resolved"
    THEN Then([state EXCEPT !.data = Some(eff.value), !.loading = FALSE], <<>>, <<>>)
    ELSE Then([state EXCEPT !.loading = FALSE], <<"Failed to load analytics">>, <<>>)

\* RevenueMetrics.loadRevenue from the await on
loadRevenueDone(state, eff) ==
    IF eff.outcome = "rejected"
    THEN Then([state EXCEPT !.loading = FALSE], <<"Failed to load revenue">>, <<>>)
    ELSE LET response == eff.value IN
         IF ~(response.kind = "object" /\ Has(response.fields, "daily_breakdown"))
         THEN Then([state EXCEPT !.loading = FALSE], <<>>, <<>>)
         ELSE LET b == response.fields.daily_breakdown IN
              IF ~Has(b, "dates") \/ (Len(b.dates) > 0 /\ ~Has(b, "revenues"))
              THEN Then([state EXCEPT !.loading = FALSE], <<"Failed to load revenue">>, <<>>)
              ELSE Then([state EXCEPT
                           !.data = Arr([i \in 1..Len(b.dates) |->
                                           [date |-> toLocaleDateString(b.dates[i]),
                                            revenue |-> OrZero(b.revenues, i)]]),
                           !.loading = FALSE], <<>>, <<>>)

\* Home: the effect runs loadData on mount
HomeMount ==
    /\ ~home.mounted
    /\ home' = [home EXCEPT !.mounted = TRUE]
    /\ SendRun(<<NoArgs("fetchDashboardSummary")>>, "home")
    /\ console' = <<>>
    /\ UNCHANGED <<env, baseURL, variant, today, last, viewVars,
                   recEngine, prodPerf, revChart, dataTest, analytics, revMetrics, custSegs>>

\* Home.loadData from the await on
loadDataDone(state, eff) ==
    IF eff.outcome = "resolved"
    THEN Then([state EXCEPT !.summary = Some(eff.value), !.loading = FALSE], <<>>, <<>>)
    ELSE Then([state EXCEPT !.loading = FALSE], <<"Failed to load dashboard summary">>, <<>>)

\* CustomerSegments: the effect runs loadSegments on mount
CustSegsMount ==
    /\ ~custSegs.mounted
    /\ custSegs' = [custSegs EXCEPT !.mounted = TRUE]
    /\ SendRun(<<NoArgs("fetchCustomerSegments")>>, "custSegs")
    /\ console' = <<>>
    /\ UNCHANGED <<env, baseURL, variant, today, last, viewVars,
                   recEngine, prodPerf, revChart, dataTest, analytics, revMetrics, home>>

\* CustomerSegments.loadSegments from the await on
loadSegmentsDone(state, eff) ==
    IF eff.outcome = "resolved"
    THEN LET data == eff.value
             first == IF data.kind = "array" /\ Len(data.items) > 0
                      THEN Some(data.items[1]) ELSE state.selectedSegment
         IN  Then([state EXCEPT !.segments = data, !.selectedSegment = first,
                                !.loading = FALSE], <<>>, <<>>)
    ELSE Then([state EXCEPT !.loading = FALSE], <<"Failed to load customer segments">>, <<>>)

(***************************************************************************)
(* Settlement of a request: the adapter produces a response or an error,   *)
(* the interceptor and the fetch function settle the call's promise, and   *)
(* the awaiting loader resumes.                                            *)
(***************************************************************************)
Settled(r, raw, eff) ==
    [call |-> r.call, config |-> r.config, owner |-> r.owner,
     raw |-> raw, outcome |-> eff.outcome, value |-> eff.value]

Settle(r, raw, stream) ==
    LET eff == FetchSettle(variant, raw, today, stream)
        view == r.owner.view
        cl == IF view = "custList" THEN loadCustomersDone(custList, eff) ELSE Done(custList, <<>>)
        pg == IF view = "prodGrid" THEN loadProductsDone(prodGrid, eff) ELSE Done(prodGrid, <<>>)
        da == IF view = "dash" THEN loadDashboardDataDone(dash, r.owner, eff)
              ELSE Done(dash, <<>>)
        dp == IF view = "dashPage" THEN loadDashboardDone(dashPage, eff)
              ELSE Done(dashPage, <<>>)
        re == IF view = "recEngine" THEN RecEngineDone(recEngine, r.call, eff)
              ELSE Then(recEngine, <<>>, <<>>)
        pp == IF view = "prodPerf" THEN ProdPerfDone(prodPerf, r.call, eff)
              ELSE Then(prodPerf, <<>>, <<>>)
        rc == IF view = "revChart" THEN loadRevenueDataDone(revChart, eff)
              ELSE Then(revChart, <<>>, <<>>)
        dt == IF view = "dataTest" THEN dataTestWrapperDone(dataTest, eff)
              ELSE Then(dataTest, <<>>, <<>>)
        an == IF view = "analytics" THEN loadAnalyticsDone(analytics, eff)
              ELSE Then(analytics, <<>>, <<>>)
        rm == IF view = "revMetrics" THEN loadRevenueDone(revMetrics, eff)
              ELSE Then(revMetrics, <<>>, <<>>)
        ho == IF view = "home" THEN loadDataDone(home, eff) ELSE Then(home, <<>>, <<>>)
        cs == IF view = "custSegs" THEN loadSegmentsDone(custSegs, eff)
              ELSE Then(custSegs, <<>>, <<>>)
        next == re.calls \o pp.calls
    IN  /\ Len(next) > 0 => (started < MaxPanelRuns /\ issued + Len(next) <= MaxRequests)
        /\ inflight' = (inflight \ {r}) \cup
               {Request(next[i], RequestOf(variant, next[i]), Owner(view, started + 1, i)) :
                  i \in 1..Len(next)}
        /\ issued' = issued + eff.sends + Len(next)
        /\ called' = called + Len(next)
        /\ started' = started + Len(next)
        /\ last' = Some(Settled(r, raw, eff))
        /\ custList' = cl.state
        /\ prodGrid' = pg.state
        /\ dash' = da.state
        /\ dashPage' = dp.state
        /\ recEngine' = re.state
        /\ prodPerf' = pp.state
        /\ revChart' = rc.state
        /\ dataTest' = dt.state
        /\ analytics' = an.state
        /\ revMetrics' = rm.state
        /\ home' = ho.state
        /\ custSegs' = cs.state
        /\ console' = eff.lines \o cl.lines \o pg.lines \o da.lines \o dp.lines
                          \o re.lines \o pp.lines \o rc.lines \o dt.lines \o an.lines
                          \o rm.lines \o ho.lines \o cs.lines
        /\ UNCHANGED <<env, baseURL, variant, today>>

\* a request can still be answered while its timeout has not expired
Open(r) == ClientTimeout(variant) = 0 \/ r.age < ClientTimeout(variant)

\* the back end answers 2xx
Respond(r, body) ==
    /\ r \in inflight /\ Open(r)
    /\ body \in ServerPayloads(r.call)
    /\ Settle(r, Response(200, body), 0)

\* 2xx bodies of the revenue endpoint that hold two days of revenue, whole or
\* lacking a part of the documented shape
RevenueTwoDays ==
    [dates |-> <<ToISOString(739), ToISOString(740)>>, revenues |-> <<100, 0>>,
     orders |-> <<2, 0>>, customers |-> <<1, 0>>]

RevenueBodies ==
    {Obj([summary |-> [total_revenue |-> 100, avg_daily_revenue |-> 50, trend |-> "stable"],
          daily_breakdown |-> RevenueTwoDays]),
     Obj([daily_breakdown |-> RevenueTwoDays]),
     Obj([summary |-> [total_revenue |-> 100, avg_daily_revenue |-> 50, trend |-> "stable"]]),
     Obj([daily_breakdown |-> [dates |-> <<ToISOString(740)>>]]),
     Arr(<<>>)}

\* the revenue endpoint answers 2xx with one of these bodies
RespondRevenue(r, body) ==
    /\ r \in inflight /\ Open(r)
    /\ r.call.fn = "fetchRevenueAnalytics"
    /\ body \in RevenueBodies
    /\ Settle(r, Response(200, body), 0)

\* the back end answers with an error status
HttpError(r, status) ==
    /\ r \in inflight /\ Open(r)
    /\ Settle(r, AxiosError(StatusCode(status), status, r.config), 0)

\* the back end cannot be reached
NetworkError(r, code, stream) ==
    /\ r \in inflight /\ Open(r)
    /\ Settle(r, AxiosError(code, 0, r.config), stream)

\* the request's timer expires: axios aborts it with ECONNABORTED
TimeoutFires(r) ==
    /\ r \in inflight
    /\ ClientTimeout(variant) > 0
    /\ r.age >= ClientTimeout(variant)
    /\ Settle(r, AxiosError("ECONNABORTED", 0, r.config), 0)

\* time passes; a timer that is due fires before time passes further
Tick ==
    LET step == TIMEOUT \div TicksPerTimeout
        Older(r) == [r EXCEPT !.age = IF r.age + step > TIMEOUT THEN TIMEOUT ELSE r.age + step]
    IN  /\ inflight # {}
        /\ \A r \in inflight : r.age < TIMEOUT
        /\ inflight' = {Older(r) : r \in inflight}
        /\ console' = <<>>
        /\ UNCHANGED <<panelVars, env, baseURL, variant, today, started, called, issued, last, viewVars>>

(***************************************************************************)
(* The state before anything is mounted or called.                         *)
(***************************************************************************)
ViewsInit ==
    /\ custList = CustListInit
    /\ prodGrid = ProdGridInit
    /\ dash = DashInit
    /\ dashPage = DashPageInit
    /\ recEngine = RecEngineInit
    /\ prodPerf = ProdPerfInit
    /\ revChart = RevChartInit
    /\ dataTest = DataTestInit
    /\ analytics = AnalyticsInit
    /\ revMetrics = RevMetricsInit
    /\ home = HomeInit
    /\ custSegs = CustSegsInit

\* the module is loaded in environment `e`: axios.create({baseURL: API_BASE_URL, ...})
InitIn(e, days) ==
    /\ env = e
    /\ baseURL = API_BASE_URL(e)
    /\ variant \in Variants
    /\ today \in days
    /\ started = 0
    /\ called = 0
    /\ issued = 0
    /\ inflight = {}
    /\ last = None
    /\ console = <<>>
    /\ ViewsInit

\* NEXT_PUBLIC_API_URL is not set
InitOn(days) == InitIn(None, days)

Init == InitOn(Todays)

\* the views are run on one day, 2025-01-10
InitViews == InitOn({740})

(***************************************************************************)
(* Specifications.                                                         *)
(***************************************************************************)
\* the client alone, called from outside the views
Next ==
    \/ \E c \in DirectCalls : DirectCall(c)
    \/ \E r \in inflight : \E body \in ServerPayloads(r.call) : Respond(r, body)
    \/ \E r \in inflight : \E status \in ErrorStatuses : HttpError(r, status)
    \/ \E r \in inflight : \E code \in NetworkCodes : \E stream \in 0..(RandomStreams - 1) :
           NetworkError(r, code, stream)
    \/ \E r \in inflight : TimeoutFires(r)
    \/ Tick

Spec == Init /\ [][Next]_vars

\* the two list views
NextLists ==
    \/ CustListMount
    \/ \E s \in Segments : CustListSegment(s)
    \/ ProdGridMount
    \/ \E c \in Categories : ProdGridCategory(c)
    \/ \E r \in inflight : \E body \in ServerPayloads(r.call) : Respond(r, body)
    \/ \E r \in inflight : HttpError(r, 500)
    \/ \E r \in inflight : NetworkError(r, "ERR_NETWORK", 0)

SpecLists == InitViews /\ [][NextLists]_vars

\* the loaders of CustomerList and of the two Dashboards
NextLoaders ==
    \/ CustListMount
    \/ CustListSegment("champions")
    \/ DashMount
    \/ DashTimeRange("1y")
    \/ DashRefresh
    \/ DashPageMount
    \/ DashPageTimeRange("7d")
    \/ \E r \in inflight : \E body \in ServerPayloads(r.call) : Respond(r, body)
    \/ \E r \in inflight : HttpError(r, 500)

SpecLoaders == InitViews /\ [][NextLoaders]_vars

\* the module is loaded in any of the environments, on 2025-01-10
InitRequests == \E e \in Envs : InitIn(e, {740})

\* the requests the fetch functions send
NextRequests ==
    \/ \E c \in RequestCalls : c.fn \in Exports(variant) /\ DirectCall(c)
    \/ \E r \in inflight : \E body \in ServerPayloads(r.call) : Respond(r, body)
    \/ \E r \in inflight : NetworkError(r, "ECONNREFUSED", 0)

SpecRequests == InitRequests /\ [][NextRequests]_vars

\* the calls that pass an absent or an empty filter, next to one that passes a filter
FilterCalls ==
    {c \in RequestCalls : c.fn \in {"fetchProducts", "fetchCustomers", "fetchPopularProducts"}}

\* the list views, next to callers that pass filters of their own
NextFilters ==
    \/ \E c \in FilterCalls : c.fn \in Exports(variant) /\ DirectCall(c)
    \/ CustListMount
    \/ \E s \in Segments : CustListSegment(s)
    \/ ProdGridMount
    \/ \E c \in Categories : ProdGridCategory(c)
    \/ \E r \in inflight : \E body \in ServerPayloads(r.call) : Respond(r, body)
    \/ \E r \in inflight : NetworkError(r, "ECONNREFUSED", 0)

SpecFilters == InitViews /\ [][NextFilters]_vars

\* the values the customer select may hold
CustomerIds == {""} \cup {CustomerRows[i].customer_id : i \in 1..Len(CustomerRows)}

\* RecommendationEngine
NextRecs ==
    \/ RecMount
    \/ \E id \in CustomerIds : RecSelectCustomer(id)
    \/ RecAlgorithm("collaborative")
    \/ RecRefresh
    \/ \E r \in inflight : \E body \in ServerPayloads(r.call) : Respond(r, body)
    \/ \E r \in inflight : HttpError(r, 500)
    \/ \E r \in inflight : NetworkError(r, "ERR_NETWORK", 0)

SpecRecs == InitViews /\ [][NextRecs]_vars

\* the skus a row or a card may carry
ProductSkus == {ProductRows[i].sku : i \in 1..Len(ProductRows)}

\* ProductPerformance
NextPerf ==
    \/ ProdPerfMount
    \/ \E sku \in ProductSkus : ProdPerfSelect(sku)
    \/ \E r \in inflight : \E body \in ServerPayloads(r.call) : Respond(r, body)
    \/ \E r \in inflight : \E status \in ErrorStatuses : HttpError(r, status)
    \/ \E r \in inflight : \E code \in NetworkCodes : NetworkError(r, code, 0)

SpecPerf == InitViews /\ [][NextPerf]_vars

\* RevenueChart
NextRevenue ==
    \/ RevChartMount
    \/ \E n \in ChartRanges : RevChartTimeRange(n)
    \/ \E r \in inflight : \E body \in ServerPayloads(r.call) : Respond(r, body)
    \/ \E r \in inflight : \E body \in RevenueBodies : RespondRevenue(r, body)
    \/ \E r \in inflight : HttpError(r, 500)
    \/ \E r \in inflight : NetworkError(r, "ERR_NETWORK", 0)

SpecRevenue == InitViews /\ [][NextRevenue]_vars

\* DataTestPage
NextDataTest ==
    \/ DataTestMount
    \/ DataTestImported
    \/ DataTestDirectResponds(ServerSummary)
    \/ \E err \in FetchErrors : DataTestDirectFails(err)
    \/ \E r \in inflight : \E body \in ServerPayloads(r.call) : Respond(r, body)
    \/ \E r \in inflight : \E status \in ErrorStatuses : HttpError(r, status)
    \/ \E r \in inflight : \E code \in NetworkCodes : NetworkError(r, code, 0)

SpecDataTest == InitViews /\ [][NextDataTest]_vars

\* the pages and components whose loaders clear loading in a finally block
NextPages ==
    \/ CustListMount
    \/ CustListSegment("champions")
    \/ ProdGridMount
    \/ ProdGridCategory("electronics")
    \/ AnalyticsMount
    \/ AnalyticsTimeRange("7d")
    \/ HomeMount
    \/ CustSegsMount
    \/ \E r \in inflight : \E body \in ServerPayloads(r.call) : Respond(r, body)
    \/ \E r \in inflight : NetworkError(r, "ERR_NETWORK", 0)

SpecPages == InitViews /\ [][NextPages]_vars

\* AnalyticsPage with its RevenueMetrics
NextAnalytics ==
    \/ AnalyticsMount
    \/ \E t \in TimeRanges : AnalyticsTimeRange(t)
    \/ \E r \in inflight : \E body \in ServerPayloads(r.call) : Respond(r, body)
    \/ \E r \in inflight : \E body \in RevenueBodies : RespondRevenue(r, body)
    \/ \E r \in inflight : HttpError(r, 500)

SpecAnalytics == InitViews /\ [][NextAnalytics]_vars

(***************************************************************************)
(* Properties.                                                             *)
(***************************************************************************)
\* the settled call `last` holds, when there is one
HasLast == last # None
L == last[1]

\* the adapter failed with a connection-refused or network-unreachable error
NetworkFailure(l) == l.raw.kind = "error" /\ l.raw.code \in {"ECONNREFUSED", "ERR_NETWORK"}

\* the adapter failed in any other way: an error status, a timeout
OtherFailure(l) == l.raw.kind = "error" /\ l.raw.code \notin {"ECONNREFUSED", "ERR_NETWORK"}

\* C1: with any of the clients, a call whose transport fails with an error whose
\* code is neither ECONNREFUSED nor ERR_NETWORK rejects, with that error: no mock
\* payload is returned
C1_OtherErrorsPropagate ==
    (HasLast /\ OtherFailure(L)) => (L.outcome = "rejected" /\ L.value = L.raw)

\* an error status on a path of the mock table, with a client that has the fallback
C1_Witness ==
    /\ HasLast /\ HasInterceptor(variant)
    /\ L.raw.kind = "error" /\ L.raw.code = "ERR_BAD_RESPONSE"
    /\ Includes(L.config.url, DASHBOARD_SUMMARY)
    /\ L.outcome = "rejected"

C2_Summary ==
    Obj([total_customers |-> 12543, total_products |-> 3421, total_purchases |-> 45632,
         total_revenue |-> 2456789, revenue_30d |-> 245678,
         revenue_growth_30d |-> Frac(47, 2), active_customers_30d |-> 3456,
         new_customers_30d |-> 234, database_status |-> "operational"])

\* C2: with a client that installs the response interceptor, a call on a path
\* containing "dashboard-summary" whose transport fails with connection refused or
\* network unreachable resolves with exactly the fixed summary
C2_SummaryFallback ==
    (HasLast /\ HasInterceptor(variant) /\ NetworkFailure(L)
       /\ Includes(L.config.url, DASHBOARD_SUMMARY))
    => (L.outcome = "resolved" /\ L.value = C2_Summary)

C2_Witness ==
    /\ HasLast /\ HasInterceptor(variant) /\ NetworkFailure(L)
    /\ L.raw.code = "ECONNREFUSED"
    /\ L.call.fn = "fetchDashboardSummary"
    /\ L.outcome = "resolved"

\* C3: under the same failure a call on a path containing "customer-segments"
\* resolves with exactly three entries, in the order Champions (2450, 24.5),
\* Loyal (3200, 32), Potential (1800, 18)
C3_SegmentsFallback ==
    (HasLast /\ HasInterceptor(variant) /\ NetworkFailure(L)
       /\ Includes(L.config.url, CUSTOMER_SEGMENTS))
    => /\ L.outcome = "resolved"
       /\ L.value.kind = "array"
       /\ Len(L.value.items) = 3
       /\ L.value.items[1] =
            [segment_name |-> "Champions", customer_count |-> 2450, percentage |-> Frac(49, 2)]
       /\ L.value.items[2] =
            [segment_name |-> "Loyal", customer_count |-> 3200, percentage |-> Frac(32, 1)]
       /\ L.value.items[3] =
            [segment_name |-> "Potential", customer_count |-> 1800, percentage |-> Frac(18, 1)]

C3_Witness ==
    /\ HasLast /\ HasInterceptor(variant) /\ NetworkFailure(L)
    /\ L.raw.code = "ERR_NETWORK"
    /\ L.call.fn = "fetchCustomerSegments"
    /\ L.outcome = "resolved"

\* a path of the mock table of the specification
InMockTable(url) ==
    \/ Includes(url, DASHBOARD_SUMMARY)
    \/ Includes(url, CUSTOMER_SEGMENTS)
    \/ Includes(url, REVENUE)

\* C4: under the same failure a call on a path that is not in the mock table
\* resolves with the empty sequence: it neither rejects nor resolves with anything else
C4_OtherPathsEmpty ==
    (HasLast /\ HasInterceptor(variant) /\ NetworkFailure(L) /\ ~InMockTable(L.config.url))
    => (L.outcome = "resolved" /\ L.value = Arr(<<>>))

\* a products request with a category, which the client of the second version
\* carries in the URL, is answered by the fallback
C4_Witness ==
    /\ HasLast /\ variant = "mock" /\ NetworkFailure(L)
    /\ L.call.fn = "fetchProducts" /\ L.call.filter = Some("electronics")
    /\ Includes(L.config.url, <<"category", "=", "electronics">>)
    /\ L.outcome = "resolved"

\* the revenue object of the mock table: the summary and 30 daily elements, one
\* per consecutive day in chronological order, each of a date, a revenue and orders
IsRevenueFallback(value) ==
    /\ value.kind = "object"
    /\ DOMAIN value.fields =
         {"total_revenue", "order_count", "avg_order_value", "growth_rate", "daily_revenue"}
    /\ value.fields.total_revenue = 234500
    /\ value.fields.order_count = 4567
    /\ value.fields.avg_order_value = Frac(5123, 100)
    /\ value.fields.growth_rate = Frac(47, 2)
    /\ LET d == value.fields.daily_revenue IN
         /\ Len(d) = 30
         /\ \A i \in 1..Len(d) : DOMAIN d[i] = {"date", "revenue", "orders"}
         /\ \A i \in 1..(Len(d) - 1) :
              /\ IsoBefore(d[i].date, d[i + 1].date)
              /\ DateOf(d[i + 1].date.year, d[i + 1].date.month, d[i + 1].date.day)
                   = DateOf(d[i].date.year, d[i].date.month, d[i].date.day) + 1

\* C5: with a client that installs the response interceptor, a call on a path
\* containing "revenue" whose transport fails with connection refused or network
\* unreachable resolves with the revenue object: the summary 234500 / 4567 / 51.23 /
\* 23.5 and a chronological daily series of exactly 30 elements
C5_RevenueFallback ==
    (HasLast /\ HasInterceptor(variant) /\ NetworkFailure(L) /\ Includes(L.config.url, REVENUE))
    => (L.outcome = "resolved" /\ IsRevenueFallback(L.value))

\* what holds of C5: the first version of the client answers so
C5_RevenueFallbackFirstVersion ==
    (HasLast /\ variant = "mockRevenue" /\ NetworkFailure(L)
       /\ Includes(L.config.url, REVENUE))
    => (L.outcome = "resolved" /\ IsRevenueFallback(L.value))

\* what the second version answers instead: the empty sequence
C5_SecondVersionEmpty ==
    (HasLast /\ variant = "mock" /\ NetworkFailure(L) /\ Includes(L.config.url, REVENUE))
    => (L.outcome = "resolved" /\ L.value = Arr(<<>>))

\* time passes and due timers fire
FairSpec == Spec /\ WF_vars(Tick) /\ WF_vars(\E r \in inflight : TimeoutFires(r))

\* C8: every request sent eventually settles: no call stays pending forever
C8_EveryRequestSettles == (inflight # {}) ~> (inflight = {})

\* what holds of C8: the requests of a client created with the timeout settle
C8_SettlesWithTimeout == (ClientTimeout(variant) > 0 /\ inflight # {}) ~> (inflight = {})

\* the timeout is not masked: the call rejects with the ECONNABORTED error
C8_TimeoutRejects ==
    (HasLast /\ L.raw.kind = "error" /\ L.raw.code = "ECONNABORTED")
    => (L.outcome = "rejected" /\ L.value = L.raw)

\* C9: each call of a typed fetch function sends exactly one HTTP request whatever
\* its outcome (nothing is sent again after a failure, masked or not), and a call
\* that rejects does so with the very error the client produced
C9_OneRequestPerCall ==
    /\ issued = called
    /\ (HasLast /\ L.outcome = "rejected") => L.value = L.raw

\* two calls made, the first masked by the fallback or answered, the second rejected
C9_Witness ==
    /\ HasLast /\ HasInterceptor(variant)
    /\ called = 2 /\ issued = 2 /\ inflight = {}
    /\ L.outcome = "rejected" /\ L.raw.code = "ERR_BAD_REQUEST"

\* C6: nothing discards a response: the list a view stores is the one of the request
\* that resolved last, whether or not that request is the latest the view sent
C6_EveryResponseApplied ==
    /\ (HasLast /\ L.owner.view = "custList" /\ L.outcome = "resolved")
         => custList.customers = L.value
    /\ (HasLast /\ L.owner.view = "prodGrid" /\ L.outcome = "resolved")
         => prodGrid.products = L.value

\* CustomerList sent a request for 'all' and then one for 'champions'; the first
\* resolved last: the view shows the list of all customers, a loyal one among
\* them, while its segment is 'champions'
C6_Witness ==
    /\ HasLast /\ L.owner.view = "custList" /\ L.owner.load = 1 /\ L.call.filter = None
    /\ started = 2 /\ inflight = {}
    /\ custList.segment = "champions"
    /\ custList.customers = Arr(CustomerRows)
    /\ \E i \in 1..Len(CustomerRows) : CustomerRows[i].segment # custList.segment

\* the step settles a request awaited by `view` with a rejection
Rejects(view) ==
    /\ Cardinality(inflight') < Cardinality(inflight)
    /\ last'[1].owner.view = view
    /\ last'[1].outcome = "rejected"

\* the rejection is the one the Promise.all of a pending run of the Dashboard awaits
RejectsDash == Rejects("dash") /\ \E p \in dash.awaiting : p.load = last'[1].owner.load

Logged(line) == \E i \in 1..Len(console') : console'[i] = line

\* C7: when the fetch a page-level loader awaits rejects, the loader logs the error
\* and every data state of the view keeps its value
C7_RejectionKeepsState ==
    [][/\ Rejects("custList") =>
            (Logged("Failed to load customers") /\ custList'.customers = custList.customers)
       /\ RejectsDash =>
            (/\ Logged("Failed to load dashboard")
             /\ dash'.dashboardData = dash.dashboardData
             /\ dash'.customerSegments = dash.customerSegments
             /\ dash'.revenueData = dash.revenueData)
       /\ Rejects("dashPage") =>
            (Logged("Failed to load dashboard") /\ dashPage'.data = dashPage.data)]_vars

\* C7, amended: the loader logs the error; CustomerList keeps its list; the two
\* Dashboards store the fixed summary of their catch block as the summary and keep
\* their other data states
C7_RejectionLogsAndFallsBack ==
    [][/\ Rejects("custList") =>
            (Logged("Failed to load customers") /\ custList'.customers = custList.customers)
       /\ RejectsDash =>
            (/\ Logged("Failed to load dashboard")
             /\ dash'.dashboardData = Some(DashboardFallback)
             /\ dash'.customerSegments = dash.customerSegments
             /\ dash'.revenueData = dash.revenueData)
       /\ Rejects("dashPage") =>
            (Logged("Failed to load dashboard") /\ dashPage'.data = Some(DashPageFallback))]_vars

\* a fetch of the Dashboard has just been rejected: the error is logged, the
\* summary is the fixed one and loading is over while requests are still in flight
C7_Witness ==
    /\ HasLast /\ L.owner.view = "dash" /\ L.outcome = "rejected"
    /\ \E i \in 1..Len(console) : console[i] = "Failed to load dashboard"
    /\ dash.dashboardData = Some(DashboardFallback)
    /\ dash.revenueData = None
    /\ ~dash.loading /\ inflight # {}

\* the server answered with the empty sequence, or the failure was a network one
EmptyOrNetworkFailure(l) ==
    \/ l.raw.kind = "response" /\ l.raw.data.kind = "array" /\ l.raw.data.items = <<>>
    \/ NetworkFailure(l)

\* C10: with a client that installs the response interceptor, on a path outside the
\* mock table the run in which the server answers with the empty sequence and the
\* run in which the transport fails with a network error end alike: the call
\* resolves with the empty sequence, and the view holds the empty list, not loading
C10_EmptyIndistinguishable ==
    (HasLast /\ HasInterceptor(variant) /\ ~InMockTable(L.config.url)
       /\ EmptyOrNetworkFailure(L))
    => /\ L.outcome = "resolved"
       /\ L.value = Arr(<<>>)
       /\ L.owner.view = "custList" => (custList.customers = Arr(<<>>) /\ ~custList.loading)
       /\ L.owner.view = "prodGrid" => (prodGrid.products = Arr(<<>>) /\ ~prodGrid.loading)

\* the list of customers, loaded from the server before, is emptied by a masked failure
C10_Witness ==
    /\ HasLast /\ HasInterceptor(variant) /\ NetworkFailure(L)
    /\ L.owner.view = "custList" /\ L.owner.load = 1 /\ started = 2 /\ inflight = {}
    /\ custList.customers = Arr(<<>>) /\ ~custList.loading

(***************************************************************************)
(* The requests the fetch functions build.                                 *)
(***************************************************************************)
\* the keys of a sequence of key=value pairs
Keys(query) == {query[i][1] : i \in 1..Len(query)}

\* C11: fetchProducts(limit, offset, category) sends a GET on /products whose query
\* parameters are exactly limit and offset when no category is passed
\* (fetchProducts(50, 0): limit=50&offset=0, no category key), and carry
\* category=<value> in addition exactly when a category is passed
C11_ProductsQuery ==
    \A r \in inflight : r.call.fn = "fetchProducts" =>
        LET c == r.call
            q == Query(r.config)
        IN  /\ r.config.method = "get"
            /\ Path(r.config.url) = <<"/", "products">>
            /\ Len(q) >= 2 /\ q[1][1] = "limit" /\ q[2][1] = "offset"
            /\ (c.limit = Some(50) /\ c.offset = Some(0) /\ c.filter = None)
                 => q = <<<<"limit", "50">>, <<"offset", "0">>>>
            /\ (c.limit = Some(50) /\ c.offset = Some(0) /\ c.filter = Some("electronics"))
                 => q = <<<<"limit", "50">>, <<"offset", "0">>, <<"category", "electronics">>>>
            /\ (c.limit = Some(10) /\ c.offset = Some(20) /\ c.filter = Some("home"))
                 => q = <<<<"limit", "10">>, <<"offset", "20">>, <<"category", "home">>>>
            /\ (c.filter = None) => (Len(q) = 2 /\ "category" \notin Keys(q))
            /\ (c.filter # None /\ c.filter[1] # "")
                 => (Len(q) = 3 /\ q[3] = <<"category", c.filter[1]>>)

\* fetchProducts(50, 0, "electronics") of the third version is in flight, its
\* category in the query string of the URL
C11_Witness ==
    \E r \in inflight :
        /\ variant = "plain"
        /\ r.call.fn = "fetchProducts" /\ r.call.filter = Some("electronics")
        /\ r.call.limit = Some(50)
        /\ Includes(r.config.url, <<"?", "limit", "=", "50", "&", "offset", "=", "0", "&",
                                    "category", "=", "electronics">>)

\* the functions that take an optional filter
FilterFunctions == {"fetchProducts", "fetchCustomers", "fetchPopularProducts"}

\* a filter that is absent or empty leaves no trace in the request
NoFilterSent(r) ==
    LET q == Query(r.config)
    IN  /\ Keys(q) \cap {"category", "segment"} = {}
        /\ \A i \in 1..Len(q) : q[i][2] \notin {"", "null", "undefined"}
        /\ r.config.data = None

\* the request a view has just sent passes undefined for 'all' and the option otherwise
ViewFilter(view, option) ==
    \A r \in inflight' \ inflight : r.owner.view = view =>
        /\ r.call.filter # Some("all")
        /\ option = "all" => (r.call.filter = None /\ NoFilterSent(r))
        /\ option # "all" => r.call.filter = Some(option)

\* C12: for fetchProducts, fetchCustomers and fetchPopularProducts a filter that is
\* absent (undefined) or the empty string never appears in the request, neither as a
\* key with an empty value nor as null; and CustomerList and ProductGrid pass
\* undefined, not the literal 'all', when the option 'all' is selected
C12_AbsentFilterOmitted ==
    /\ [](\A r \in inflight :
            (r.call.fn \in FilterFunctions /\ ~Truthy(r.call.filter)) => NoFilterSent(r))
    /\ [][ViewFilter("custList", custList'.segment)
            /\ ViewFilter("prodGrid", prodGrid'.category)]_vars

\* a caller has passed '' as the segment, and CustomerList, showing 'all', has a
\* request in flight that carries limit and offset alone
C12_Witness ==
    /\ HasLast /\ L.call.fn = "fetchCustomers" /\ L.call.filter = Some("")
    /\ Keys(Query(L.config)) = {"limit", "offset"}
    /\ custList.segment = "all"
    /\ \E r \in inflight :
         /\ r.owner.view = "custList"
         /\ r.call.filter = None
         /\ Keys(Query(r.config)) = {"limit", "offset"}

\* an ISO-8601 text of a calendar day that exists, denoting `date`
IsISOOf(iso, date) ==
    /\ iso.month \in 1..12
    /\ iso.day \in 1..DaysInMonth(iso.year, iso.month)
    /\ DateOf(iso.year, iso.month, iso.day) = date

\* C13: fetchRevenueAnalytics(startDate, endDate) sends start_date and end_date as
\* the ISO-8601 texts of the two dates; the request carries no start_date field when
\* startDate is omitted and no end_date field when endDate is omitted, each
\* independently of the other
C13_RevenueDates ==
    \A r \in inflight : r.call.fn = "fetchRevenueAnalytics" =>
        LET c == r.call
            sent == RevenueFields(r.config)
        IN  /\ DOMAIN sent \subseteq {"start_date", "end_date"}
            /\ ("start_date" \in DOMAIN sent) <=> (c.startDate # None)
            /\ ("end_date" \in DOMAIN sent) <=> (c.endDate # None)
            /\ c.startDate # None => IsISOOf(sent.start_date, c.startDate[1])
            /\ c.endDate # None => IsISOOf(sent.end_date, c.endDate[1])
            /\ c.startDate = Some(710) => sent.start_date = [year |-> 2024, month |-> 12, day |-> 11]
            /\ c.endDate = Some(740) => sent.end_date = [year |-> 2025, month |-> 1, day |-> 10]

\* fetchRevenueAnalytics(undefined, endDate) of a version that posts the dates: the
\* body names start_date with the value undefined, and end_date alone is sent
C13_Witness ==
    \E r \in inflight :
        /\ variant = "mock"
        /\ r.call.fn = "fetchRevenueAnalytics"
        /\ r.call.startDate = None /\ r.call.endDate = Some(740)
        /\ r.config.data[1].start_date.present
        /\ DOMAIN RevenueFields(r.config) = {"end_date"}

\* C14: fetchRecommendations(customerId), called with a customer id alone, posts to
\* /recommendations the body {customer_id: customerId, algorithm: "hybrid", limit: 10,
\* include_explanation: false}; an argument that is passed replaces its own default
\* and no other
C14_RecommendationDefaults ==
    \A r \in inflight : r.call.fn = "fetchRecommendations" =>
        LET c == r.call
            body == r.config.data[1]
        IN  /\ r.config.method = "post"
            /\ r.config.url = <<"/", "recommendations">>
            /\ r.config.params = None
            /\ DOMAIN body = {"customer_id", "algorithm", "limit", "include_explanation"}
            /\ body.customer_id = c.customerId[1]
            /\ body.algorithm = (IF c.algorithm = None THEN "hybrid" ELSE c.algorithm[1])
            /\ body.limit = (IF c.limit = None THEN 10 ELSE c.limit[1])
            /\ body.include_explanation =
                 (IF c.includeExplanation = None THEN FALSE ELSE c.includeExplanation[1])
            /\ (c.algorithm = None /\ c.limit = None /\ c.includeExplanation = None
                  /\ c.customerId = Some("C1"))
                 => body = [customer_id |-> "C1", algorithm |-> "hybrid", limit |-> 10,
                            include_explanation |-> FALSE]

\* fetchRecommendations("C1", undefined, 6) is in flight: the limit is 6 and the
\* other two fields keep their defaults
C14_Witness ==
    \E r \in inflight :
        /\ r.call.fn = "fetchRecommendations"
        /\ r.call.limit = Some(6) /\ r.call.algorithm = None
        /\ r.config.data[1] = [customer_id |-> "C1", algorithm |-> "hybrid", limit |-> 6,
                               include_explanation |-> FALSE]

\* the functions that take both limit and offset
PagedFunctions ==
    {"fetchProducts", "fetchCustomers", "fetchProductReviews", "fetchCustomerPurchaseHistory"}

\* the request carries limit=`limit` and offset=`offset`
Paged(r, limit, offset) ==
    LET q == Query(r.config)
    IN  /\ \E i \in 1..Len(q) : q[i] = <<"limit", limit>>
        /\ \E i \in 1..Len(q) : q[i] = <<"offset", offset>>

\* C16: every fetch function that takes both limit and offset (list products, list
\* customers, product reviews, customer purchase history) sends limit=50 and
\* offset=0 when it is called without them
C16_PaginationDefaults ==
    \A r \in inflight :
        (r.call.fn \in PagedFunctions /\ r.call.limit = None /\ r.call.offset = None)
        => Paged(r, "50", "0")

\* C16, amended: called without limit and offset, fetchProducts and fetchCustomers
\* send limit=50 and offset=0, fetchProductReviews and fetchCustomerPurchaseHistory
\* send limit=20 and offset=0
C16_PaginationDefaultsByFunction ==
    \A r \in inflight :
        (r.call.fn \in PagedFunctions /\ r.call.limit = None /\ r.call.offset = None)
        => IF r.call.fn \in {"fetchProducts", "fetchCustomers"}
           THEN Paged(r, "50", "0")
           ELSE Paged(r, "20", "0")

\* fetchProductReviews("P1") is in flight with limit=20
C16_Witness ==
    \E r \in inflight :
        /\ r.call.fn = "fetchProductReviews" /\ r.call.limit = None /\ r.call.offset = None
        /\ r.config.url = <<"/", "products", "/", "P1", "/", "reviews", "?", "limit", "=", "20",
                            "&", "offset", "=", "0">>

\* C17: whatever the fetch function and the successful response, the call resolves
\* with the decoded body of the response, not with the envelope and not with
\* undefined: the clients that unwrap in the interceptor and the client that
\* unwraps with response.data in each function resolve alike
C17_ResolvesWithBody ==
    (HasLast /\ L.raw.kind = "response")
    => /\ L.outcome = "resolved"
       /\ L.value # None
       /\ L.value.kind \in {"array", "object"}
       /\ L.value = L.raw.data

\* the client without interceptor has resolved fetchProductReviews with the body
C17_Witness ==
    /\ HasLast /\ variant = "plain"
    /\ L.call.fn = "fetchProductReviews"
    /\ L.raw.kind = "response" /\ L.raw.status = 200
    /\ L.value = ServerRecommendations

\* C19: the base URL of the client is NEXT_PUBLIC_API_URL when the environment sets
\* it, and "http://localhost:8000/api/v1" when it is unset or empty; it is resolved
\* when the client is created and no request changes it
C19_BaseURL ==
    /\ env = None => baseURL = "http://localhost:8000/api/v1"
    /\ env = Some("") => baseURL = "http://localhost:8000/api/v1"
    /\ (env # None /\ env # Some("")) => baseURL = env[1]

\* two calls have been made with NEXT_PUBLIC_API_URL set to the empty string
C19_Witness ==
    /\ env = Some("")
    /\ baseURL = "http://localhost:8000/api/v1"
    /\ called = 2 /\ inflight = {} /\ HasLast

(***************************************************************************)
(* Successive calls.                                                       *)
(***************************************************************************)
\* the step settles a call, `last` being the call settled before it
SettlesNext == HasLast /\ Cardinality(inflight') < Cardinality(inflight)

\* the call the step settles
LNext == last'[1]

\* C15: two calls of fetchCustomerSegments() in a row, the back end answering both
\* with the same body or both being masked by the fallback, give two identical
\* results: the first call leaves nothing behind that changes the second
C15_SegmentsIdempotent ==
    [][(/\ SettlesNext
        /\ L.call.fn = "fetchCustomerSegments" /\ LNext.call.fn = "fetchCustomerSegments"
        /\ \/ L.raw.kind = "response" /\ LNext.raw.kind = "response"
                /\ L.raw.data = LNext.raw.data
           \/ HasInterceptor(variant) /\ NetworkFailure(L) /\ NetworkFailure(LNext))
       => (LNext.outcome = L.outcome /\ LNext.value = L.value)]_vars

\* fetchCustomerSegments() has been called a second time and masked again
C15_Witness ==
    /\ HasLast /\ HasInterceptor(variant)
    /\ started = 2 /\ called = 2 /\ inflight = {}
    /\ L.call.fn = "fetchCustomerSegments" /\ L.owner.load = 2
    /\ NetworkFailure(L) /\ L.outcome = "resolved"
    /\ Len(L.value.items) = 3

\* C18: the mock payload of a masked failure is a function of the request path
\* alone: two masked failures on the same path resolve with the same payload,
\* whatever the method, the params object and the body of the two requests; the
\* checks are made in the order dashboard-summary, customer-segments, revenue, other
C18_MockByPathAlone ==
    [][(/\ SettlesNext /\ HasInterceptor(variant)
        /\ NetworkFailure(L) /\ NetworkFailure(LNext)
        /\ Path(L.config.url) = Path(LNext.config.url))
       => /\ LNext.value = L.value
          /\ Includes(LNext.config.url, DASHBOARD_SUMMARY) => LNext.value = C2_Summary
          /\ (/\ ~Includes(LNext.config.url, DASHBOARD_SUMMARY)
              /\ Includes(LNext.config.url, CUSTOMER_SEGMENTS))
               => (LNext.value.kind = "array" /\ Len(LNext.value.items) = 3)]_vars

\* C20: whenever a request fails, the error handler of the interceptor writes the
\* failure to the console before it decides between the mock payload and the
\* rejection: 'API Error' is the first line of every failure, masked or passed on,
\* and the notice of the mock data comes after it
C20_FailureLoggedFirst ==
    [][(/\ Cardinality(inflight') < Cardinality(inflight)
        /\ HasInterceptor(variant)
        /\ LNext.raw.kind = "error")
       => /\ Len(console') >= 1
          /\ console'[1] = "API Error"
          /\ \A i \in 2..Len(console') : console'[i] # "API Error"
          /\ LNext.outcome = "resolved" => console' = <<"API Error", "using mock data">>
          /\ LNext.outcome = "rejected" => console' = <<"API Error">>]_vars

\* a masked failure: the error line, then the notice of the mock data
C20_Witness ==
    /\ HasLast /\ HasInterceptor(variant)
    /\ NetworkFailure(L) /\ L.outcome = "resolved"
    /\ console = <<"API Error", "using mock data">>

(***************************************************************************)
(* The Dashboard loading with Promise.all.                                 *)
(***************************************************************************)
\* the step settles a request of the Dashboard
SettlesDash == Cardinality(inflight') < Cardinality(inflight) /\ LNext.owner.view = "dash"

\* the three data states of the Dashboard
DashData(d) == <<d.dashboardData, d.customerSegments, d.revenueData>>

\* the pending run of loadDashboardData the settled request belongs to, if any
PendingOf(owner) == {p \in dash.awaiting : p.load = owner.load}

\* C21: the Dashboard that loads with Promise.all updates its three states all
\* together or not at all: a fetch that rejects ends the load with dashboardData set
\* to the fixed summary and no fetched value stored; a fetch that resolves stores
\* nothing unless it is the last of the three, and then all three values of the
\* load are stored; loading is false once the load has settled either way
C21_AllOrNothing ==
    [][SettlesDash =>
         IF PendingOf(LNext.owner) = {} THEN DashData(dash') = DashData(dash)
         ELSE LET p == CHOOSE q \in PendingOf(LNext.owner) : TRUE
                  arrived == {i \in 1..3 : p.got[i] # None} \cup {LNext.owner.slot}
              IN  IF LNext.outcome = "rejected"
                  THEN /\ dash'.dashboardData = Some(DashboardFallback)
                       /\ dash'.customerSegments = dash.customerSegments
                       /\ dash'.revenueData = dash.revenueData
                       /\ ~dash'.loading
                       /\ PendingOf(LNext.owner) \cap dash'.awaiting = {}
                  ELSE IF arrived = 1..3
                  THEN /\ DashData(dash')[LNext.owner.slot]
                            = (IF LNext.owner.slot = 2 THEN LNext.value ELSE Some(LNext.value))
                       /\ \A i \in (1..3) \ {LNext.owner.slot} :
                            DashData(dash')[i] = (IF i = 2 THEN p.got[i][1] ELSE p.got[i])
                       /\ ~dash'.loading
                  ELSE DashData(dash') = DashData(dash) /\ dash'.loading]_vars

\* summary and segments had resolved when the revenue fetch was rejected: the load
\* has ended with the fixed summary, and the segments fetched are not stored
C21_Witness ==
    /\ HasLast /\ L.owner.view = "dash" /\ L.owner.slot = 3 /\ L.outcome = "rejected"
    /\ started = 1 /\ inflight = {}
    /\ dash.awaiting = {} /\ ~dash.loading
    /\ dash.dashboardData = Some(DashboardFallback)
    /\ dash.customerSegments = Arr(<<>>) /\ dash.revenueData = None
    /\ console = <<"API Error", "Failed to load dashboard">>

\* C22: in the Dashboard that sets loading at the start of loadDashboardData and
\* renders only the spinner while loading, at most one run of the loader is pending
\* at any time, whatever the mounts, time-range changes and Refresh clicks, and
\* loading is true whenever a run is pending
C22_OneLoadAtATime ==
    /\ Cardinality(dash.awaiting) <= 1
    /\ dash.awaiting # {} => dash.loading

\* a second load is pending after Refresh, while a request of the first load, which
\* a rejection ended, is still in flight
C22_Witness ==
    /\ dash.loading /\ Cardinality(dash.awaiting) = 1
    /\ \E r \in inflight :
         /\ r.owner.view = "dash"
         /\ \A p \in dash.awaiting : p.load # r.owner.load

(***************************************************************************)
(* RecommendationEngine.                                                   *)
(***************************************************************************)
\* a recommendations request
IsRecs(c) == c.fn = "fetchRecommendations"

RecsInFlight == {r \in inflight : r.owner.view = "recEngine" /\ IsRecs(r.call)}

\* C23: RecommendationEngine never issues a recommendations request with a null or
\* an empty customer id, whatever the mounts, selections (the empty option
\* included), algorithm changes and Refresh clicks; and while the customer list it
\* holds is the empty sequence it issues no recommendations request at all
C23_NoRequestWithoutCustomer ==
    /\ \A r \in inflight : IsRecs(r.call) => Truthy(r.call.customerId)
    /\ (HasLast /\ IsRecs(L.call)) => Truthy(L.call.customerId)
    /\ recEngine.customers = Arr(<<>>) =>
         /\ RecsInFlight = {}
         /\ HasLast => ~IsRecs(L.call)

\* recommendations were fetched for the first customer, then the user chose the
\* empty option: nothing is in flight
C23_Witness ==
    /\ recEngine.selectedCustomer = Some("")
    /\ recEngine.customers # Arr(<<>>)
    /\ HasLast /\ IsRecs(L.call) /\ L.call.customerId = Some("C1")
    /\ inflight = {}

\* the load of the customers gave the empty sequence, masked or not
C23_WitnessEmptyList ==
    /\ recEngine.mounted /\ recEngine.customers = Arr(<<>>)
    /\ HasLast /\ L.call.fn = "fetchCustomers" /\ L.outcome = "resolved"
    /\ NetworkFailure(L)
    /\ recEngine.selectedCustomer = None /\ inflight = {}

\* the values fetchRecommendations may resolve with for a customer and an algorithm
RecommendationsFor(customer, algorithm) ==
    {Arr(<<>>),
     ServerRecommendationsFor(Call("fetchRecommendations", Some(6), None, None, None, None,
                                   customer, Some(algorithm), Some(TRUE)))}

\* C24: in RecommendationEngine loading is true exactly while a recommendations
\* request is in flight, and when loading is false and a customer is selected the
\* stored recommendations are those returned for the selected customer and
\* algorithm (or none were stored yet)
C24_LoadingAndFresh ==
    /\ recEngine.loading <=> RecsInFlight # {}
    /\ (~recEngine.loading /\ Truthy(recEngine.selectedCustomer)) =>
         recEngine.recommendations \in
            RecommendationsFor(recEngine.selectedCustomer, recEngine.algorithm)

(***************************************************************************)
(* ProductPerformance.                                                     *)
(***************************************************************************)
\* C25: in ProductPerformance, whenever the performance panel is shown
\* (selectedProduct and performance both non-null) the stored performance is the one
\* fetched for the selected product
C25_PerformanceOfSelected ==
    (prodPerf.selectedProduct # None /\ prodPerf.performance # None)
    => prodPerf.performance[1] = ServerPerformance(prodPerf.selectedProduct[1])

(***************************************************************************)
(* RevenueChart.                                                           *)
(***************************************************************************)
\* the step settles the fetch of a load of RevenueChart
SettlesRevChart == last' # last /\ LNext.owner.view = "revChart"

\* C26: one load of RevenueChart updates the chart data and the summary together or
\* neither: whatever the response, after the load settles either data and summary
\* both come from that response or both are unchanged, and loading is false
C26_DataAndSummaryTogether ==
    [][SettlesRevChart =>
         /\ ~revChart'.loading
         /\ \/ revChart'.data = revChart.data /\ revChart'.summary = revChart.summary
            \/ /\ LNext.outcome = "resolved"
               /\ Charts(LNext.value) /\ Has(LNext.value.fields, "summary")
               /\ revChart'.data = chartData(LNext.value)
               /\ revChart'.summary = summaryOf(LNext.value)]_vars

(***************************************************************************)
(* DataTestPage.                                                           *)
(***************************************************************************)
\* C27: in DataTestPage, when the direct call and the call through the wrapper have
\* both failed, the error text holds both failure messages, whichever failed first;
\* and loading is true exactly until the call through the wrapper settles, whatever
\* the direct call does
C27_BothFailuresKept ==
    /\ (dataTest.direct = "failed" /\ dataTest.wrapper = "failed") =>
         /\ Includes(dataTest.error, <<"Direct backend call failed: ">>)
         /\ Includes(dataTest.error, <<"\nAPI wrapper call failed: ">>)
    /\ dataTest.mounted => (dataTest.loading <=> dataTest.wrapper \in {"importing", "called"})

(***************************************************************************)
(* RevenueMetrics and the Dashboard.                                       *)
(***************************************************************************)
\* C28: for each value of the time range select, RevenueMetrics requests the window
\* the Dashboard requests for that value: it ends today and starts 7, 30 or 90 days
\* earlier, one year earlier for '1y'
C28_SameWindowAsDashboard ==
    [][\A r \in inflight' \ inflight :
          r.owner.view = "revMetrics" =>
             /\ r.call.startDate = Some(StartDate(analytics'.timeRange, today))
             /\ r.call.endDate = Some(today)]_vars

(***************************************************************************)
(* The loaders that clear loading in a finally block.                      *)
(***************************************************************************)
\* the loading flags of CustomerList, ProductGrid, AnalyticsPage, Home and
\* CustomerSegments
FinallyLoading ==
    [custList |-> custList.loading, prodGrid |-> prodGrid.loading,
     analytics |-> analytics.loading, home |-> home.loading, custSegs |-> custSegs.loading]

\* C29: for CustomerList, ProductGrid, AnalyticsPage, Home and CustomerSegments, a
\* fetch of the loader that settles, by success, masked failure or rejection, leaves
\* loading false, and loading, once false, is never true again, whatever reloads
\* the changes of a parameter start
C29_LoadingClearedForGood ==
    [][\A v \in DOMAIN FinallyLoading :
          /\ (last' # last /\ LNext.owner.view = v) => ~FinallyLoading'[v]
          /\ ~FinallyLoading[v] => ~FinallyLoading'[v]]_vars

\* the first fetch of AnalyticsPage was masked by the fallback; a change of the time
\* range has started a reload, which is in flight while loading is false
C29_Witness ==
    /\ analytics.mounted /\ analytics.timeRange = "7d" /\ ~analytics.loading
    /\ HasLast /\ L.owner.view = "analytics" /\ NetworkFailure(L) /\ L.outcome = "resolved"
    /\ \E r \in inflight : r.owner.view = "analytics"

====
